---- MODULE Spec2Model ----
(***************************************************************************)
(* Answering-machine-detection (AMD) decision engine of attack-capital:    *)
(* the four detector strategies (processCall / handleWebhook), the dial    *)
(* entrypoint and the webhook handlers that reconcile provider events      *)
(* into the call record store.                                             *)
(*                                                                         *)
(* Conventions                                                             *)
(*  - JS strings that the code inspects character by character (phone      *)
(*    numbers, durations, captured speech) are sequences of one-character  *)
(*    strings; the empty sequence is the absent/empty (falsy) value.       *)
(*  - enum-like payload fields are TLA+ strings, "" being absent (falsy).  *)
(*  - a nullable numeric column is <<>> (NULL) or <<n>>.                    *)
(*  - confidences are in hundredths (85 is 0.85); a cost is                *)
(*    duration-in-seconds times the per-minute rate in 1/10000 dollars.    *)
(*  - a metadata object is a function from its present keys to values;     *)
(*    a NULL metadata column and {} behave alike in every handler (path    *)
(*    lookups fail, spreads contribute nothing) and are both << >>.        *)
(***************************************************************************)
EXTENDS Integers, Sequences, FiniteSets, TLC

\* ---------------------------------------------------------------- bounds
MaxCalls == 1
MaxRequests == 3

VARIABLES
    calls,      \* the call record store: calls[i] is the record with id i
    last,       \* outcome of the request handled last (result, reply, collaborator log)
    nEvents,    \* number of webhook events handled so far
    inflight,   \* concurrent handlers between their read and their write
    handlers,   \* handlers[i]: the voice webhook the native provider was given for call i
    activeStreams, \* the media-stream route's buffers, by stream id
    windows,    \* the audio windows handed to processAudioChunk so far
    sent,       \* sent[s]: media messages the provider has sent on stream s
    manager     \* the ML-service manager: its isStarting flag and its callers' positions

vars == <<calls, last, nEvents, inflight, handlers, activeStreams, windows, sent, manager>>
streamVars == <<activeStreams, windows, sent>>

\* ------------------------------------------------------------ vocabulary
Strategies == {"TWILIO_NATIVE", "JAMBONZ_SIP", "HUGGINGFACE_MODEL", "GEMINI_FLASH"}
CallStatuses == {"INITIATED", "RINGING", "ANSWERED", "COMPLETED", "FAILED", "CANCELLED"}
AmdResults == {"HUMAN", "MACHINE", "VOICEMAIL", "UNDECIDED", "TIMEOUT", "ERROR"}

None == << >>
Some(x) == <<x>>
EmptyMeta == << >>

\* {...a, ...b}
Spread(a, b) == [k \in (DOMAIN a) \cup (DOMAIN b) |-> IF k \in DOMAIN b THEN b[k] ELSE a[k]]

\* a key whose value is undefined is dropped when the object is stored as JSON
DropKey(m, k) == [j \in (DOMAIN m) \ {k} |-> m[j]]

Result(r, c, m) == [result |-> r, confidence |-> c, metadata |-> m]
NullResult == [result |-> "null", confidence |-> 0, metadata |-> EmptyMeta]
IsNull(r) == r.result = "null"

\* ---------------------------------------------------------- phone numbers
Digits == {"0", "1", "2", "3", "4", "5", "6", "7", "8", "9"}
IsDigit(c) == c \in Digits
IsDigitOrPlus(c) == c \in Digits \cup {"+"}
StartsWith(s, p) == Len(s) >= Len(p) /\ SubSeq(s, 1, Len(p)) = p
Slice(s, n) == SubSeq(s, n + 1, Len(s))

\* String.prototype.replace('+', ''): removes the first plus sign only
RemoveFirstPlus(s) ==
    IF \E i \in 1..Len(s) : s[i] = "+"
    THEN LET i == CHOOSE j \in 1..Len(s) : s[j] = "+" /\ \A k \in 1..(j - 1) : s[k] # "+"
         IN SubSeq(s, 1, i - 1) \o SubSeq(s, i + 1, Len(s))
    ELSE s

formatPhoneNumber(input) ==
    LET digits == SelectSeq(input, IsDigit)
    IN IF digits = << >> THEN << >>
       ELSE IF Len(digits) = 11 /\ StartsWith(digits, <<"1">>) THEN <<"+">> \o digits
       ELSE IF Len(digits) = 12 /\ StartsWith(digits, <<"9", "1">>) THEN <<"+">> \o digits
       ELSE IF Len(digits) = 10
            THEN IF digits[1] \in {"6", "7", "8", "9"}
                 THEN <<"+", "9", "1">> \o digits
                 ELSE <<"+", "1">> \o digits
       ELSE IF Len(digits) > 12 THEN <<"+">> \o digits
       ELSE <<"+", "1">> \o digits

\* a variant of the validation that lets every number through; C14 depends on
\* the dial entrypoint refusing what isValidPhoneNumber refuses
acceptsEveryNumber(phoneNumber) == TRUE

isValidPhoneNumber(phoneNumber) ==
    LET formatted == formatPhoneNumber(phoneNumber)
    IN /\ Len(formatted) >= 11
       /\ Len(formatted) <= 16
       /\ formatted[1] = "+"
       /\ \A i \in 2..Len(formatted) : IsDigit(formatted[i])

\* parseInt of a string of decimal digits
RECURSIVE parseInt(_)
parseInt(s) ==
    IF s = << >> THEN 0
    ELSE 10 * parseInt(SubSeq(s, 1, Len(s) - 1))
         + (CHOOSE d \in 0..9 : <<"0", "1", "2", "3", "4", "5", "6", "7", "8", "9">>[d + 1] = s[Len(s)])

\* provider-assigned call ids: one per placed call, unique within a provider
TwilioSid(id) == <<"CA", id>>
JambonzSid(id) == <<"JB", id>>
UnknownSid == <<"CA", 0>>

\* ------------------------------------------------------- webhook payloads
\* a payload is a function from the fields it carries to their values
Str(body, k) == IF k \in DOMAIN body THEN body[k] ELSE ""
Flag(body, k) == IF k \in DOMAIN body THEN body[k] ELSE FALSE
Chars(body, k) == IF k \in DOMAIN body THEN body[k] ELSE << >>

\* ------------------------------------------------------------ strategies
\* a variant of the native mapping with the confidences of the alternate
\* provider's mapping; the native mapping's figures are what C7 depends on
TwilioHandleWebhookOtherFigures(payload) ==
    LET amdStatus == IF Str(payload, "AnsweringMachineDetectionStatus") # ""
                     THEN Str(payload, "AnsweringMachineDetectionStatus")
                     ELSE Str(payload, "AnsweredBy")
        meta == [twilioAmd |-> amdStatus, source |-> "AnsweredBy"]
    IN IF amdStatus = "" THEN NullResult
       ELSE IF amdStatus = "human" THEN Result("HUMAN", 90, meta)
       ELSE IF amdStatus = "unknown" THEN Result("UNDECIDED", 30, meta)
       ELSE Result("MACHINE", 85, meta)

\* TwilioNativeDetector.handleWebhook
TwilioAmdMetadata(amdStatus, AnsweredBy) ==
    [twilioAmd |-> amdStatus,
     source |-> IF AnsweredBy # "" THEN "AnsweredBy" ELSE "AnsweringMachineDetectionStatus"]

TwilioHandleWebhook(payload) ==
    LET AnsweredBy == Str(payload, "AnsweredBy")
        amdStatus == IF Str(payload, "AnsweringMachineDetectionStatus") # ""
                     THEN Str(payload, "AnsweringMachineDetectionStatus")
                     ELSE AnsweredBy
    IN IF amdStatus # ""
       THEN IF amdStatus = "human"
            THEN Result("HUMAN", 85, TwilioAmdMetadata(amdStatus, AnsweredBy))
            ELSE IF amdStatus \in {"machine_start", "machine_end_beep", "machine_end_silence", "machine"}
            THEN Result("MACHINE", 80, TwilioAmdMetadata(amdStatus, AnsweredBy))
            ELSE IF amdStatus = "fax"
            THEN Result("MACHINE", 90, TwilioAmdMetadata(amdStatus, AnsweredBy))
            ELSE Result("UNDECIDED", 30, TwilioAmdMetadata(amdStatus, AnsweredBy))
       ELSE NullResult

\* JambonzSipDetector.handleWebhook
JambonzHandleWebhook(payload) ==
    IF Flag(payload, "amd_human_detected")
    THEN Result("HUMAN", 90, [jambonzAmd |-> "human_detected"])
    ELSE IF Flag(payload, "amd_machine_detected")
    THEN Result("MACHINE", 85, [jambonzAmd |-> "machine_detected"])
    ELSE IF Flag(payload, "amd_decision_timeout")
    THEN Result("TIMEOUT", 50, [jambonzAmd |-> "decision_timeout"])
    ELSE NullResult

\* createDetector(strategy).handleWebhook: the ML and LLM detectors delegate to
\* the native detector
HandleWebhook(strategy, payload) ==
    IF strategy = "JAMBONZ_SIP" THEN JambonzHandleWebhook(payload)
    ELSE TwilioHandleWebhook(payload)

\* one call made to an external collaborator, and how it ended
Called(svc, arg, out) == [svc |-> svc, arg |-> arg, out |-> out]

\* TwilioNativeDetector.processCall; tw is how the provider answers calls.create
TwilioProcessCall(phoneNumber, id, tw) ==
    [res |-> IF tw = "ok"
             THEN Result("UNDECIDED", 0, [twilioCallSid |-> TwilioSid(id), status |-> "queued"])
             ELSE IF tw = "err21219"
             THEN Result("ERROR", 0, [error |-> "Trial account limitation: Can only call verified numbers.",
                                      twilioError |-> "twilio error message"])
             ELSE Result("ERROR", 0, [error |-> "twilio error message"]),
     log |-> <<Called("twilio.calls.create", "voice", tw)>>]

\* a variant of the fallback that reports the fallback alone and drops what
\* the native placement returned; C10 depends on the native result being kept
fallbackWithoutNative(phoneNumber, id, reason, tw) ==
    [res |-> Result("UNDECIDED", 0,
                    [fallbackReason |-> reason,
                     originalProvider |-> "jambonz",
                     actualProvider |-> "twilio",
                     fallbackUsed |-> TRUE]),
     log |-> <<Called("twilio.calls.create", "voice", tw)>>]

\* JambonzSipDetector.fallbackToTwilio
fallbackToTwilio(phoneNumber, id, reason, tw) ==
    LET native == TwilioProcessCall(phoneNumber, id, tw)
    IN [res |-> [native.res EXCEPT !.metadata =
                    Spread(native.res.metadata,
                           [fallbackReason |-> reason,
                            originalProvider |-> "jambonz",
                            actualProvider |-> "twilio",
                            fallbackUsed |-> TRUE])],
        log |-> native.log]

\* the number formats JambonzSipDetector.processCall tries, in order
toNumberFormats(phoneNumber) ==
    LET cleanToNumber == SelectSeq(phoneNumber, IsDigitOrPlus)
    IN <<cleanToNumber,
         RemoveFirstPlus(cleanToNumber),
         IF StartsWith(cleanToNumber, <<"+", "9", "1">>) THEN Slice(cleanToNumber, 3)
         ELSE IF StartsWith(cleanToNumber, <<"+", "1">>) THEN Slice(cleanToNumber, 2)
         ELSE RemoveFirstPlus(cleanToNumber)>>

\* the placement loop of JambonzSipDetector.processCall from attempt i on.
\* resp[i] is how the alternate provider answers attempt i:
\*   "ok"             accepted, body read
\*   "ok_unreadable"  accepted, reading the body throws
\*   "reject"         not ok, error text read
\*   "reject_unreadable" not ok, reading the error text throws
\*   "throw"          the request throws (network error, 10 s timeout)
RECURSIVE JambonzAttempts(_, _, _, _, _)
JambonzAttempts(phoneNumber, id, i, env, log) ==
    LET formats == toNumberFormats(phoneNumber)
    IN IF i > Len(formats)
       THEN LET fb == fallbackToTwilio(phoneNumber, id, "All Jambonz phone number formats failed", env.tw)
            IN [res |-> fb.res, log |-> log \o fb.log]
       ELSE LET out == env.jbResp[i]
                log2 == Append(log, Called("jambonz.calls", formats[i], out))
            IN IF out = "ok"
               THEN [res |-> Result("UNDECIDED", 0,
                                    [jambonzCallSid |-> JambonzSid(id),
                                     status |-> "initiated",
                                     phoneFormat |-> formats[i],
                                     provider |-> "jambonz",
                                     sipRouting |-> "enhanced",
                                     amdConfig |-> [thresholdWordCount |-> 5, decisionTimeoutMs |-> 10000]]),
                     log |-> log2]
               ELSE IF out = "reject" /\ i = Len(formats)
               THEN LET fb == fallbackToTwilio(phoneNumber, id, "Jambonz rejected all formats: error text", env.tw)
                    IN [res |-> fb.res, log |-> log2 \o fb.log]
               ELSE JambonzAttempts(phoneNumber, id, i + 1, env, log2)

\* JambonzSipDetector.processCall
JambonzProcessCall(phoneNumber, id, env) ==
    IF ~env.jbConfigured
    THEN fallbackToTwilio(phoneNumber, id, "Jambonz not configured", env.tw)
    ELSE LET probe == <<Called("jambonz.health", "GET", env.jbHealth)>>
         IN IF env.jbHealth # "ok"
            THEN LET fb == fallbackToTwilio(phoneNumber, id, "Jambonz service unavailable", env.tw)
                 IN [res |-> fb.res, log |-> probe \o fb.log]
            ELSE JambonzAttempts(phoneNumber, id, 1, env, probe)

\* a variant of HuggingFaceDetector.processCall that, when the health probe
\* fails, still places the call with the streaming voice webhook; C20 depends
\* on the placement being delegated to the native strategy
HuggingFaceStreamsAnyway(phoneNumber, id, env) ==
    [res |-> Result("UNDECIDED", 0,
                    [twilioCallSid |-> TwilioSid(id),
                     strategy |-> "huggingface-fallback",
                     fallbackReason |-> "Python service unavailable",
                     originalStrategy |-> "huggingface"]),
     log |-> <<Called("python.health", "GET", env.pyHealth),
               Called("twilio.calls.create", "voice-stream", env.twPrimary)>>]

\* HuggingFaceDetector.processCall; env.pyHealth is the ML service's health probe,
\* env.twPrimary the provider's answer to the streaming placement
HuggingFaceProcessCall(phoneNumber, id, env) ==
    LET probe == <<Called("python.health", "GET", env.pyHealth)>>
        native == TwilioProcessCall(phoneNumber, id, env.tw)
    IN IF env.pyHealth # "ok"
       THEN [res |-> [native.res EXCEPT !.metadata =
                        Spread(native.res.metadata,
                               [strategy |-> "huggingface-fallback",
                                fallbackReason |-> "Python service unavailable",
                                originalStrategy |-> "huggingface"])],
             log |-> probe \o native.log]
       ELSE LET place == Append(probe, Called("twilio.calls.create", "voice-stream", env.twPrimary))
            IN IF env.twPrimary = "ok"
               THEN [res |-> Result("UNDECIDED", 0,
                                    [twilioCallSid |-> TwilioSid(id),
                                     strategy |-> "huggingface",
                                     pythonService |-> "http://localhost:8000",
                                     streamingEnabled |-> TRUE,
                                     model |-> "jakeBland/wav2vec-vm-finetune",
                                     analysisMethod |-> "real-time-streaming-ml"]),
                     log |-> place]
               ELSE [res |-> [native.res EXCEPT !.metadata =
                                Spread(native.res.metadata,
                                       [strategy |-> "huggingface-error-fallback",
                                        originalError |-> "twilio error message",
                                        originalStrategy |-> "huggingface"])],
                     log |-> place \o native.log]

\* GeminiFlashDetector.processCall; env.gemKey is whether the API key is set,
\* env.gemProbe the outcome of testGeminiAvailability
GeminiProcessCall(phoneNumber, id, env) ==
    LET native == TwilioProcessCall(phoneNumber, id, env.tw)
    IN IF ~env.gemKey
       THEN [res |-> [native.res EXCEPT !.metadata =
                        Spread(native.res.metadata,
                               [strategy |-> "gemini-fallback",
                                fallbackReason |-> "Gemini API key not configured",
                                originalStrategy |-> "gemini",
                                note |-> "Get free API key from ai.google.dev"])],
             log |-> native.log]
       ELSE LET probe == <<Called("gemini.generateContent", "Hi", env.gemProbe)>>
            IN IF env.gemProbe # "ok"
               THEN [res |-> [native.res EXCEPT !.metadata =
                                Spread(native.res.metadata,
                                       [strategy |-> "gemini-api-fallback",
                                        fallbackReason |-> "Gemini API unavailable",
                                        originalStrategy |-> "gemini"])],
                     log |-> probe \o native.log]
               ELSE LET place == Append(probe, Called("twilio.calls.create", "voice-gemini", env.twPrimary))
                    IN IF env.twPrimary = "ok"
                       THEN [res |-> Result("UNDECIDED", 0,
                                            [twilioCallSid |-> TwilioSid(id),
                                             strategy |-> "gemini",
                                             geminiModel |-> "gemini-1.5-flash",
                                             streamingEnabled |-> TRUE,
                                             analysisMethod |-> "multimodal-streaming-llm",
                                             costOptimized |-> TRUE]),
                             log |-> place]
                       ELSE [res |-> [native.res EXCEPT !.metadata =
                                        Spread(native.res.metadata,
                                               [strategy |-> "gemini-error-fallback",
                                                originalError |-> "twilio error message",
                                                originalStrategy |-> "gemini"])],
                             log |-> place \o native.log]

\* createDetector(strategy).processCall
ProcessCall(strategy, phoneNumber, id, env) ==
    IF strategy = "TWILIO_NATIVE" THEN TwilioProcessCall(phoneNumber, id, env.tw)
    ELSE IF strategy = "JAMBONZ_SIP" THEN JambonzProcessCall(phoneNumber, id, env)
    ELSE IF strategy = "HUGGINGFACE_MODEL" THEN HuggingFaceProcessCall(phoneNumber, id, env)
    ELSE GeminiProcessCall(phoneNumber, id, env)


\* ------------------------------------------------------ call record store
\* prisma.call.create in the dial handler: the columns not given are NULL
NewCall(targetNumber, strategy) ==
    [targetNumber |-> targetNumber,
     amdStrategy |-> strategy,
     status |-> "INITIATED",
     amdResult |-> "NULL",
     confidence |-> None,
     duration |-> None,
     cost |-> None,
     errorMessage |-> "NULL",
     metadata |-> EmptyMeta]

\* a variant of the update under which a decided verdict, once stored, is
\* kept (first verdict wins); C6 depends on the code not doing this
ApplyUpdateFirstWins(call, data) ==
    IF call.amdResult \in {"HUMAN", "MACHINE", "VOICEMAIL"} /\ "amdResult" \in DOMAIN data
    THEN Spread(call, [data EXCEPT !.amdResult = call.amdResult])
    ELSE Spread(call, data)

\* prisma.call.update({where: {id}, data}): only the columns in data change
\* (updatedAt, a wall-clock stamp, is left out of the record)
ApplyUpdate(call, data) == Spread(call, data)

\* prisma.call.findFirst with metadata path filters: the ids of the records that
\* store sid under one of the keys and whose strategy is among the allowed ones
\* a variant of the lookup that takes any record of a matching strategy,
\* whatever provider call id it stores; C16 depends on the lookup being by id
FindAnyCall(store, keys, sid, strategies) ==
    {i \in DOMAIN store : store[i].amdStrategy \in strategies}

FindCalls(store, keys, sid, strategies) ==
    {i \in DOMAIN store :
        /\ store[i].amdStrategy \in strategies
        /\ \E k \in keys : k \in DOMAIN store[i].metadata /\ store[i].metadata[k] = sid}

\* ------------------------------------------- native status callback (POST)
mapTwilioStatus(status) ==
    IF status \in {"queued", "initiated"} THEN "INITIATED"
    ELSE IF status = "ringing" THEN "RINGING"
    ELSE IF status = "in-progress" THEN "ANSWERED"
    ELSE IF status = "completed" THEN "COMPLETED"
    ELSE IF status \in {"failed", "busy", "no-answer"} THEN "FAILED"
    ELSE IF status = "canceled" THEN "CANCELLED"
    ELSE "INITIATED"

TwilioStatusFind(store, body) == FindCalls(store, {"twilioCallSid"}, body.CallSid, Strategies)

\* the detection result the handler obtains, null when the event has no AMD field
TwilioStatusResult(call, body) ==
    LET amd == IF Str(body, "AnsweringMachineDetectionStatus") # ""
               THEN Str(body, "AnsweringMachineDetectionStatus")
               ELSE Str(body, "AnsweredBy")
    IN IF amd # ""
       THEN TwilioHandleWebhook(Spread(body, [AnsweringMachineDetectionStatus |-> amd]))
       ELSE NullResult

\* the metadata the handler writes when it has a detection result
TwilioStatusMetadata(call, body, result) ==
    LET merged == Spread(Spread(call.metadata, result.metadata),
                         [originalStrategy |-> call.amdStrategy,
                          actualProvider |-> "twilio",
                          fallbackUsed |-> (call.amdStrategy # "TWILIO_NATIVE")])
    IN IF Str(body, "AnsweredBy") # ""
       THEN Spread(merged, [originalAnsweredBy |-> body.AnsweredBy])
       ELSE DropKey(merged, "originalAnsweredBy")

\* a variant of the handler's update that stores the detection result without
\* looking whether there is one; C5 depends on the code looking
TwilioStatusUpdateUnguarded(call, body) ==
    LET result == TwilioStatusResult(call, body)
    IN [status |-> mapTwilioStatus(Str(body, "CallStatus")),
        amdResult |-> IF IsNull(result) THEN "UNDECIDED" ELSE result.result,
        confidence |-> Some(result.confidence),
        duration |-> None,
        cost |-> None,
        metadata |-> TwilioStatusMetadata(call, body, result)]

\* the data of the handler's prisma.call.update, computed from the record it read
TwilioStatusUpdate(call, body) ==
    LET result == TwilioStatusResult(call, body)
        duration == IF Chars(body, "CallDuration") # << >>
                    THEN Some(parseInt(body.CallDuration)) ELSE None
        cost == IF duration # None /\ duration[1] # 0 THEN Some(duration[1] * 85) ELSE None
    IN [status |-> mapTwilioStatus(Str(body, "CallStatus")),
        amdResult |-> IF IsNull(result) THEN call.amdResult ELSE result.result,
        confidence |-> IF IsNull(result) THEN call.confidence ELSE Some(result.confidence),
        duration |-> duration,
        cost |-> cost,
        metadata |-> IF IsNull(result) THEN call.metadata
                     ELSE TwilioStatusMetadata(call, body, result)]

\* --------------------------------- alternate-provider AMD events (POST)
mapJambonzStatus(call, status) ==
    IF status \in {"trying", "proceeding"} THEN "INITIATED"
    ELSE IF status = "ringing" THEN "RINGING"
    ELSE IF status \in {"early", "in-progress"} THEN "ANSWERED"
    ELSE IF status = "completed" THEN "COMPLETED"
    ELSE IF status \in {"failed", "busy", "no-answer"} THEN "FAILED"
    ELSE IF status = "canceled" THEN "CANCELLED"
    ELSE call.status

AmdEventsFind(store, body) ==
    FindCalls(store, {"jambonzCallSid", "twilioCallSid"}, body.call_sid,
              {"JAMBONZ_SIP", "TWILIO_NATIVE"})

calculateCost(durationSec, strategy) ==
    IF strategy = "JAMBONZ_SIP" THEN durationSec * 80 ELSE durationSec * 85

\* call_duration ? parseInt(call_duration) : null
JambonzDuration(body) ==
    IF Chars(body, "call_duration") # << >> THEN Some(parseInt(body.call_duration)) ELSE None

\* the duration and cost columns are part of the update only when not null
DurationData(duration, cost) ==
    Spread(IF duration # None THEN [duration |-> duration] ELSE EmptyMeta,
           IF cost # None THEN [cost |-> cost] ELSE EmptyMeta)

AmdEventsUpdate(call, body) ==
    LET result == HandleWebhook(call.amdStrategy, body)
        newStatus == IF Str(body, "call_status") # ""
                     THEN mapJambonzStatus(call, body.call_status) ELSE call.status
        verdict == IF IsNull(result) THEN EmptyMeta
                   ELSE [amdResult |-> result.result,
                         confidence |-> Some(result.confidence),
                         metadata |-> Spread(Spread(call.metadata, result.metadata),
                                             [lastWebhookReceived |-> "now",
                                              provider |-> IF call.amdStrategy = "JAMBONZ_SIP"
                                                           THEN "jambonz" ELSE "twilio"])]
        duration == JambonzDuration(body)
        cost == IF duration # None /\ duration[1] # 0
                THEN Some(calculateCost(duration[1], call.amdStrategy)) ELSE None
    IN Spread(Spread([status |-> newStatus], verdict), DurationData(duration, cost))

AmdEventsReply(body) ==
    IF Flag(body, "amd_human_detected") THEN "say_ack_hangup"
    ELSE IF Flag(body, "amd_machine_detected") THEN "hangup"
    ELSE IF Flag(body, "amd_decision_timeout") THEN "say_prompt_gather"
    ELSE "pause_say_hello"

\* --------------------------------------- alternate-provider webhook (POST)
JambonzFind(store, body) == FindCalls(store, {"jambonzCallSid"}, body.call_sid, {"JAMBONZ_SIP"})

JambonzUpdate(call, body) ==
    LET result == JambonzHandleWebhook(body)
        newStatus == IF Str(body, "call_status") # ""
                     THEN mapJambonzStatus(call, body.call_status) ELSE call.status
        verdict == IF IsNull(result) THEN EmptyMeta
                   ELSE [amdResult |-> result.result,
                         confidence |-> Some(result.confidence),
                         metadata |-> Spread(call.metadata, result.metadata)]
        duration == JambonzDuration(body)
        cost == IF duration # None /\ duration[1] # 0 THEN Some(duration[1] * 100) ELSE None
    IN Spread(Spread([status |-> newStatus], verdict), DurationData(duration, cost))

JambonzReply(body) ==
    IF Flag(body, "amd_human_detected") THEN "say_verified"
    ELSE IF Flag(body, "amd_machine_detected") THEN "hangup"
    ELSE "say_prompt"


\* ------------------------------------------------ speech verification (POST)
VerifyFind(store, body) ==
    FindCalls(store, {"jambonzCallSid", "twilioCallSid"}, body.call_sid, Strategies)

toLowerCase(text) ==
    [i \in 1..Len(text) |->
        IF text[i] = "H" THEN "h" ELSE IF text[i] = "I" THEN "i"
        ELSE IF text[i] = "O" THEN "o" ELSE IF text[i] = "K" THEN "k"
        ELSE IF text[i] = "Y" THEN "y" ELSE IF text[i] = "E" THEN "e"
        ELSE IF text[i] = "S" THEN "s" ELSE text[i]]

RECURSIVE trim(_)
trim(text) ==
    IF text = << >> THEN text
    ELSE IF Head(text) = " " THEN trim(Tail(text))
    ELSE IF text[Len(text)] = " " THEN trim(SubSeq(text, 1, Len(text) - 1))
    ELSE text

includes(text, keyword) ==
    \E i \in 1..(Len(text) - Len(keyword) + 1) : SubSeq(text, i, i + Len(keyword) - 1) = keyword

humanKeywords ==
    {<<"h", "e", "l", "l", "o">>, <<"h", "i">>, <<"h", "e", "y">>, <<"y", "e", "s">>,
     <<"y", "e", "a", "h">>, <<"y", "e", "p">>, <<"s", "p", "e", "a", "k", "i", "n", "g">>,
     <<"t", "h", "i", "s", " ", "i", "s">>, <<"w", "h", "a", "t">>, <<"w", "h", "o">>,
     <<"h", "o", "w">>, <<"w", "h", "y">>, <<"o", "k", "a", "y">>, <<"o", "k">>}

\* a variant of isHumanResponse that counts only the opener words
isHumanByKeywordOnly(speechText) ==
    IF speechText = << >> THEN FALSE
    ELSE \E keyword \in humanKeywords : includes(trim(toLowerCase(speechText)), keyword)

isHumanResponse(speechText) ==
    IF speechText = << >> THEN FALSE
    ELSE LET text == trim(toLowerCase(speechText))
         IN (\E keyword \in humanKeywords : includes(text, keyword)) \/ Len(text) > 2

\* body.confidence is None (absent) or Some(hundredths); confidence || x
OrElse(confidence, x) == IF confidence # None /\ confidence[1] # 0 THEN confidence[1] ELSE x
Max(a, b) == IF a >= b THEN a ELSE b

VerifyIsHuman(body) == Chars(body, "speech") # << >> /\ isHumanResponse(body.speech)

VerifyUpdate(call, body) ==
    LET amdResult == IF VerifyIsHuman(body) THEN "HUMAN" ELSE "MACHINE"
        responseConfidence == IF VerifyIsHuman(body) THEN Max(80, OrElse(body.confidence, 80)) ELSE 70
    IN [amdResult |-> amdResult,
        confidence |-> Some(responseConfidence),
        metadata |-> Spread(call.metadata,
                            [speechVerification |->
                                [speech |-> IF Chars(body, "speech") # << >> THEN body.speech
                                            ELSE <<"n", "o", "_", "s", "p", "e", "e", "c", "h">>,
                                 confidence |-> OrElse(body.confidence, 0),
                                 verifiedAt |-> "now",
                                 result |-> amdResult]])]

VerifyReply(body) == IF VerifyIsHuman(body) THEN "say_thanks_hangup" ELSE "hangup"

\* ------------------------------------------- streaming audio window
\* processAudioChunk(callSid, audioData). body.ml is what processWithHuggingFace
\* returned for the window and body.llm what processWithGemini returned:
\* [ok |-> FALSE] stands for null (request failed, response did not parse)
AudioFind(store, body) == FindCalls(store, {"twilioCallSid"}, body.callSid, Strategies)

\* the data of the update; << >> when the handler makes no update
AudioUpdate(call, body) ==
    IF call.amdStrategy = "HUGGINGFACE_MODEL" /\ body.ml.ok
    THEN [amdResult |-> IF body.ml.label = "human" THEN "HUMAN" ELSE "MACHINE",
          confidence |-> Some(body.ml.confidence),
          metadata |-> Spread(call.metadata,
                              [huggingFaceResult |-> body.ml,
                               processingTime |-> body.ml.processing_time_ms])]
    ELSE IF call.amdStrategy = "GEMINI_FLASH" /\ body.llm.ok
    THEN [amdResult |-> IF body.llm.classification = "human" THEN "HUMAN" ELSE "MACHINE",
          confidence |-> Some(body.llm.confidence),
          metadata |-> Spread(call.metadata,
                              [geminiResult |-> [geminiResponse |-> body.llm, audioLength |-> "n"]])]
    ELSE EmptyMeta

\* ------------------------------------------------ LLM transcript analysis
\* a model response: out is "throw" when generateContent fails; otherwise json
\* says whether JSON.parse accepts the text, obj is the parsed object and words
\* the words of the vocabulary {human, machine, voicemail} the raw text contains
LlmConfidence(obj) == IF "confidence" \in DOMAIN obj THEN Some(obj.confidence) ELSE None

\* a variant of the keyword scan that looks for machine and voicemail first
parseFallbackMachineFirst(llm) ==
    IF "machine" \in llm.words \/ "voicemail" \in llm.words
    THEN [result |-> "MACHINE", confidence |-> Some(70),
          metadata |-> [fallbackParsing |-> TRUE, rawResponse |-> llm.words]]
    ELSE IF "human" \in llm.words
    THEN [result |-> "HUMAN", confidence |-> Some(70),
          metadata |-> [fallbackParsing |-> TRUE, rawResponse |-> llm.words]]
    ELSE [result |-> "null", confidence |-> None, metadata |-> EmptyMeta]

parseFallbackResponse(llm) ==
    IF "human" \in llm.words
    THEN [result |-> "HUMAN", confidence |-> Some(70),
          metadata |-> [fallbackParsing |-> TRUE, rawResponse |-> llm.words]]
    ELSE IF "machine" \in llm.words \/ "voicemail" \in llm.words
    THEN [result |-> "MACHINE", confidence |-> Some(70),
          metadata |-> [fallbackParsing |-> TRUE, rawResponse |-> llm.words]]
    ELSE [result |-> "null", confidence |-> None, metadata |-> EmptyMeta]

\* GeminiFlashDetector.processAudioText; the result's confidence is None when
\* the parsed response has no confidence field (undefined)
processAudioText(genAI, transcript, audioQuality, noiseLevel, llm) ==
    LET isNoisyAudio == noiseLevel = "high" \/ audioQuality = "poor"
        optimizedTranscript == IF Len(transcript) > 500
                               THEN SubSeq(transcript, 1, 500) \o <<".", ".", ".">>
                               ELSE transcript
        quality == Spread(IF audioQuality # "" THEN [audioQuality |-> audioQuality] ELSE EmptyMeta,
                          IF noiseLevel # "" THEN [noiseLevel |-> noiseLevel] ELSE EmptyMeta)
    IN IF ~genAI
       THEN [result |-> "ERROR", confidence |-> Some(0),
             metadata |-> [error |-> "Gemini API not initialized"]]
       ELSE IF llm.out = "throw"
       THEN [result |-> "ERROR", confidence |-> Some(0), metadata |-> [error |-> "llm error message"]]
       ELSE IF llm.json
       THEN [result |-> IF Str(llm.obj, "classification") = "human" THEN "HUMAN"
                        ELSE IF Str(llm.obj, "classification") = "voicemail" THEN "VOICEMAIL"
                        ELSE "MACHINE",
             confidence |-> LlmConfidence(llm.obj),
             metadata |-> Spread([geminiResponse |-> llm.obj,
                                  transcript |-> optimizedTranscript,
                                  promptType |-> IF isNoisyAudio THEN "fallback" ELSE "standard",
                                  tokenOptimized |-> (Len(transcript) > 500)],
                                 quality)]
       ELSE IF ~IsNull(parseFallbackResponse(llm))
       THEN parseFallbackResponse(llm)
       ELSE [result |-> "ERROR", confidence |-> Some(0),
             metadata |-> [error |-> "Failed to parse Gemini response",
                           rawResponse |-> llm.words,
                           fallbackAttempted |-> TRUE]]

\* a confidence that is undefined leaves the column out of the update
ConfidenceData(confidence) ==
    IF confidence # None THEN [confidence |-> confidence] ELSE EmptyMeta

\* ------------------------------------------- native speech result (POST)
SpeechResultFind(store, body) ==
    FindCalls(store, {"twilioCallSid"}, body.CallSid, {"GEMINI_FLASH"})

SpeechResultUpdate(call, body) ==
    IF Chars(body, "SpeechResult") # << >>
    THEN LET result == processAudioText(body.genAI, body.SpeechResult, "", "", body.llm)
         IN Spread([amdResult |-> result.result,
                    metadata |-> Spread(Spread(call.metadata, result.metadata),
                                        [speechResult |-> body.SpeechResult,
                                         speechConfidence |-> body.Confidence]),
                    status |-> "ANSWERED"],
                   ConfidenceData(result.confidence))
    ELSE [amdResult |-> "TIMEOUT",
          confidence |-> Some(30),
          metadata |-> Spread(call.metadata, [error |-> "No speech detected"]),
          status |-> "COMPLETED"]

\* ----------------------------------------- native recording complete (POST)
RecordingFind(store, body) == FindCalls(store, {"twilioCallSid"}, body.CallSid, Strategies)

\* analyzeAudioPatterns: body.head is what the HEAD request on the recording
\* tells about its size ("throw", "none", "small", "mid", "large"), body.variance
\* the random term, in hundredths
analyzeAudioPatterns(head, variance) ==
    IF head = "throw"
    THEN [isHuman |-> TRUE, confidence |-> 30, patterns |-> <<"analysis-error">>]
    ELSE LET raw == 50 + (IF head = "small" THEN 20 ELSE 0)
                       - (IF head = "large" THEN 30 ELSE 0) + variance
             humanScore == Max(10, IF raw <= 90 THEN raw ELSE 90)
         IN [isHuman |-> humanScore > 50,
             confidence |-> (IF humanScore >= 50 THEN humanScore - 50 ELSE 50 - humanScore) * 2,
             patterns |-> (IF head = "small" THEN <<"short-response">> ELSE << >>)
                          \o (IF head = "large" THEN <<"long-message">> ELSE << >>)
                          \o <<"pattern-analysis-complete">>]

\* body.py is the ML service's answer to predict-url, [ok |-> FALSE] when it is
\* not configured, not ok or failed
\* (pythonService: true / false is written "true" / "false": the same metadata
\* key holds the service's URL after a streaming placement)
analyzeRecordingWithHuggingFaceStyle(body) ==
    IF body.py.ok
    THEN Result(IF body.py.label = "human" THEN "HUMAN" ELSE "MACHINE",
                body.py.confidence,
                [model |-> "jakeBland/wav2vec-vm-finetune",
                 pythonService |-> "true",
                 rawPrediction |-> body.py])
    ELSE LET audioAnalysis == analyzeAudioPatterns(body.head, body.variance)
         IN Result(IF audioAnalysis.isHuman THEN "HUMAN" ELSE "MACHINE",
                   audioAnalysis.confidence,
                   [model |-> "huggingface-style-builtin",
                    pythonService |-> "false",
                    patterns |-> audioAnalysis.patterns,
                    analysisMethod |-> "pattern-recognition"])

\* getTranscriptFromRecording returns null always, so the pattern analysis decides
analyzeRecordingWithGemini(body) ==
    LET audioAnalysis == analyzeAudioPatterns(body.head, body.variance)
    IN Result(IF audioAnalysis.isHuman THEN "HUMAN" ELSE "MACHINE",
              (audioAnalysis.confidence * 8) \div 10,
              [geminiUnavailable |-> TRUE,
               fallbackAnalysis |-> TRUE,
               patterns |-> audioAnalysis.patterns])

RecordingMetadata(call, body, result, method) ==
    Spread(Spread(call.metadata, result.metadata),
           [recordingUrl |-> body.RecordingUrl,
            recordingDuration |-> body.RecordingDuration,
            analysisMethod |-> method])

\* a variant of the failure record that does not say what failed
RecordingFailureUnexplained(call, body) ==
    [amdResult |-> "ERROR",
     confidence |-> Some(0),
     metadata |-> Spread(call.metadata, [recordingUrl |-> body.RecordingUrl]),
     status |-> "FAILED"]

\* what the handler stores when the analysis or the update of its result throws
RecordingFailure(call, body) ==
    [amdResult |-> "ERROR",
     confidence |-> Some(0),
     metadata |-> Spread(call.metadata,
                         [error |-> "Recording analysis failed",
                          recordingUrl |-> body.RecordingUrl]),
     status |-> "FAILED"]

\* body.update is "throw" when the update of the analysis result is rejected
RecordingUpdate(call, body) ==
    IF Str(body, "update") = "throw" THEN RecordingFailure(call, body) ELSE
    LET result == IF call.amdStrategy = "HUGGINGFACE_MODEL"
                  THEN analyzeRecordingWithHuggingFaceStyle(body)
                  ELSE IF call.amdStrategy = "GEMINI_FLASH"
                  THEN analyzeRecordingWithGemini(body)
                  ELSE Result("UNDECIDED", 0, EmptyMeta)
    IN [amdResult |-> result.result,
        confidence |-> Some(result.confidence),
        metadata |-> IF call.amdStrategy = "HUGGINGFACE_MODEL"
                     THEN RecordingMetadata(call, body, result, "recording-huggingface-style")
                     ELSE IF call.amdStrategy = "GEMINI_FLASH"
                     THEN RecordingMetadata(call, body, result, "recording-gemini-fallback")
                     ELSE EmptyMeta,
        status |-> "COMPLETED",
        duration |-> Some(parseInt(body.RecordingDuration))]

RecordingReply(call, body) ==
    LET v == RecordingUpdate(call, body).amdResult
    IN IF Str(body, "update") = "throw" THEN "say_error_hangup"
       ELSE IF v = "HUMAN" THEN "say_verified_hangup"
       ELSE IF v \in {"MACHINE", "VOICEMAIL"} THEN "say_machine_hangup"
       ELSE "say_completed_hangup"


\* ------------------------------------------------------- event dispatch
\* an event is [ep, body]: the endpoint it is delivered to and its payload
\* (with the answers of the collaborators the handler consults)
Find(store, ev) ==
    IF ev.ep = "twilio_status" THEN TwilioStatusFind(store, ev.body)
    ELSE IF ev.ep = "amd_events" THEN AmdEventsFind(store, ev.body)
    ELSE IF ev.ep = "jambonz" THEN JambonzFind(store, ev.body)
    ELSE IF ev.ep = "verify" THEN VerifyFind(store, ev.body)
    ELSE IF ev.ep = "audio" THEN AudioFind(store, ev.body)
    ELSE IF ev.ep = "speech_result" THEN SpeechResultFind(store, ev.body)
    ELSE RecordingFind(store, ev.body)

\* the data of the prisma.call.update the handler issues, computed from the
\* record it read
Update(call, ev) ==
    IF ev.ep = "twilio_status" THEN TwilioStatusUpdate(call, ev.body)
    ELSE IF ev.ep = "amd_events" THEN AmdEventsUpdate(call, ev.body)
    ELSE IF ev.ep = "jambonz" THEN JambonzUpdate(call, ev.body)
    ELSE IF ev.ep = "verify" THEN VerifyUpdate(call, ev.body)
    ELSE IF ev.ep = "audio" THEN AudioUpdate(call, ev.body)
    ELSE IF ev.ep = "speech_result" THEN SpeechResultUpdate(call, ev.body)
    ELSE RecordingUpdate(call, ev.body)

\* the endpoints that resolve an event through the strategy's handleWebhook
ViaHandleWebhook == {"twilio_status", "amd_events", "jambonz"}

\* what handleWebhook returned in the handler (NullResult for null, and for the
\* endpoints that never call it)
WebhookResult(call, ev) ==
    IF ev.ep = "twilio_status" THEN TwilioStatusResult(call, ev.body)
    ELSE IF ev.ep = "amd_events" THEN HandleWebhook(call.amdStrategy, ev.body)
    ELSE IF ev.ep = "jambonz" THEN JambonzHandleWebhook(ev.body)
    ELSE NullResult

\* the reply to the provider when the call was resolved
Reply(call, ev) ==
    IF ev.ep = "twilio_status" THEN "ok"
    ELSE IF ev.ep = "amd_events" THEN AmdEventsReply(ev.body)
    ELSE IF ev.ep = "jambonz" THEN JambonzReply(ev.body)
    ELSE IF ev.ep = "verify" THEN VerifyReply(ev.body)
    ELSE IF ev.ep = "audio" THEN "none"
    ELSE IF ev.ep = "speech_result"
         THEN IF SpeechResultUpdate(call, ev.body).amdResult = "HUMAN" THEN "say_verified"
              ELSE "say_machine_hangup"
    ELSE RecordingReply(call, ev.body)

\* the reply when no call record matches the event
NotFoundReply(ev) ==
    IF ev.ep \in {"twilio_status", "jambonz"} THEN "ok"
    ELSE IF ev.ep \in {"amd_events", "verify"} THEN "hangup"
    ELSE IF ev.ep = "audio" THEN "none"
    ELSE "say_error_hangup"

\* ------------------------------------------------------------ the inputs
PhoneIN == <<"+", "9", "1", "9", "8", "7", "6", "5", "4", "3", "2", "1", "0">>
PhoneShort == <<"5", "5", "5", "1", "2", "3", "4">>
PhoneLong == <<"9", "9", "9", "9", "9", "9", "9", "9", "9", "9", "9", "9", "9", "9", "9", "9">>
PhoneInputs == {PhoneIN, PhoneShort, PhoneLong}

\* how the collaborators answer during one processCall:
\*   tw           the native provider's answer to the native placement
\*   twPrimary    the native provider's answer to the strategy's own placement
\*   jbConfigured whether the alternate provider's configuration is present
\*   jbHealth     the alternate provider's health probe
\*   jbResp       the alternate provider's answer to each placement attempt
\*   pyHealth     the ML service's health probe
\*   gemKey       whether the LLM API key is present
\*   gemProbe     the LLM liveness probe
AllUp ==
    [tw |-> "ok", twPrimary |-> "ok", jbConfigured |-> TRUE, jbHealth |-> "ok",
     jbResp |-> <<"ok", "ok", "ok">>, pyHealth |-> "ok", gemKey |-> TRUE, gemProbe |-> "ok"]

TwilioAnswers == {"ok", "err21219", "err"}
JambonzAnswers == {"ok", "ok_unreadable", "reject", "throw"}

\* every combination of the answers the strategy consults
EnvsOf(strategy) ==
    IF strategy = "TWILIO_NATIVE"
    THEN {[AllUp EXCEPT !.tw = tw] : tw \in TwilioAnswers}
    ELSE IF strategy = "JAMBONZ_SIP"
    THEN {[AllUp EXCEPT !.tw = tw, !.jbConfigured = c, !.jbHealth = h, !.jbResp = r] :
            tw \in TwilioAnswers, c \in BOOLEAN, h \in {"ok", "notok", "throw"},
            r \in [1..3 -> JambonzAnswers]}
    ELSE IF strategy = "HUGGINGFACE_MODEL"
    THEN {[AllUp EXCEPT !.tw = tw, !.twPrimary = p, !.pyHealth = h] :
            tw \in TwilioAnswers, p \in {"ok", "throw"}, h \in {"ok", "notok", "throw"}}
    ELSE {[AllUp EXCEPT !.tw = tw, !.twPrimary = p, !.gemKey = k, !.gemProbe = g] :
            tw \in TwilioAnswers, p \in {"ok", "throw"}, k \in BOOLEAN, g \in {"ok", "fail"}}

\* the three situations calls are placed in before webhook events are studied:
\* every collaborator up, the strategy's own collaborator missing, and the
\* native provider refusing the call
AllDown ==
    [AllUp EXCEPT !.jbConfigured = FALSE, !.pyHealth = "notok", !.gemKey = FALSE]
PlacementEnvs == {AllUp, AllDown, [AllUp EXCEPT !.tw = "err"]}

\* the provider call ids an event can carry: those the providers have handed
\* out so far, and one that no call has
TwilioSids == {TwilioSid(i) : i \in 1..Len(calls)}
JambonzSids == {JambonzSid(i) : i \in 1..Len(calls)}

Duration17 == <<"1", "7">>

\* native status callbacks: the provider reports a duration with "completed"
TwilioStatusBodies ==
    {[CallSid |-> sid, CallStatus |-> st[1], AnsweringMachineDetectionStatus |-> amd[1],
      AnsweredBy |-> amd[2], CallDuration |-> st[2]] :
        sid \in TwilioSids,
        st \in {<<"", << >> >>, <<"ringing", << >> >>, <<"completed", Duration17>>},
        amd \in {<<"", "">>, <<"", "human">>, <<"", "machine_end_beep">>,
                 <<"", "unknown">>, <<"machine_start", "">>}}
    \cup {[CallSid |-> UnknownSid, CallStatus |-> "completed",
           AnsweringMachineDetectionStatus |-> "", AnsweredBy |-> "human",
           CallDuration |-> Duration17]}

JambonzBodies(sids) ==
    {[call_sid |-> sid, amd_human_detected |-> (fs[1] = "human"),
      amd_machine_detected |-> (fs[1] = "machine"), amd_decision_timeout |-> (fs[1] = "timeout"),
      call_status |-> fs[2][1], call_duration |-> fs[2][2]] :
        sid \in sids,
        fs \in ({"none"} \X {<<"", << >> >>, <<"in-progress", << >> >>,
                             <<"completed", Duration17>>, <<"bogus", << >> >>})
               \cup ({"human", "machine", "timeout"}
                        \X {<<"", << >> >>, <<"completed", Duration17>>})}
    \cup {[call_sid |-> UnknownSid, amd_human_detected |-> TRUE,
           amd_machine_detected |-> FALSE, amd_decision_timeout |-> FALSE,
           call_status |-> "completed", call_duration |-> Duration17]}

VerifyBodies ==
    {[call_sid |-> sid, speech |-> sp[1], confidence |-> sp[2]] :
        sid \in JambonzSids \cup TwilioSids,
        sp \in {<< << >>, None>>, << <<"H", "i">>, Some(95)>>, << <<"H", "i">>, None>>,
                << <<"n", "o">>, Some(95)>>}}
    \cup {[call_sid |-> UnknownSid, speech |-> <<"H", "i">>, confidence |-> Some(95)]}

\* the ML service's and the LLM's answers for one audio window
AudioInferences ==
    {<<[ok |-> FALSE], [ok |-> FALSE]>>,
     <<[ok |-> TRUE, label |-> "human", confidence |-> 95, processing_time_ms |-> 40],
       [ok |-> TRUE, classification |-> "human", confidence |-> 90]>>,
     <<[ok |-> TRUE, label |-> "voicemail", confidence |-> 60, processing_time_ms |-> 40],
       [ok |-> TRUE, classification |-> "voicemail", confidence |-> 60]>>}

AudioBodies ==
    {[callSid |-> sid, ml |-> inf[1], llm |-> inf[2]] :
        sid \in TwilioSids, inf \in AudioInferences}
    \cup {[callSid |-> UnknownSid, ml |-> [ok |-> FALSE], llm |-> [ok |-> FALSE]]}

LlmTextResponses ==
    {[out |-> "throw"],
     [out |-> "ok", json |-> TRUE, obj |-> [classification |-> "human", confidence |-> 90],
      words |-> {"human"}],
     [out |-> "ok", json |-> TRUE, obj |-> [classification |-> "voicemail", confidence |-> 80],
      words |-> {"voicemail"}],
     [out |-> "ok", json |-> FALSE, obj |-> EmptyMeta, words |-> {"machine"}],
     [out |-> "ok", json |-> FALSE, obj |-> EmptyMeta, words |-> {}]}

Transcript == <<"h", "e", "l", "l", "o">>

SpeechResultBodies ==
    {[CallSid |-> sid, SpeechResult |-> Transcript, Confidence |-> "0.9", genAI |-> TRUE,
      llm |-> llm] : sid \in TwilioSids, llm \in LlmTextResponses}
    \cup {[CallSid |-> sid, SpeechResult |-> << >>, Confidence |-> "0.9", genAI |-> TRUE,
           llm |-> [out |-> "throw"]] : sid \in TwilioSids \cup {UnknownSid}}

RecordingBodies ==
    {[CallSid |-> sid, RecordingUrl |-> "url", RecordingDuration |-> Duration17,
      py |-> a[1], head |-> a[2], variance |-> 0] :
        sid \in TwilioSids,
        a \in {<<[ok |-> TRUE, label |-> "human", confidence |-> 95], "small">>,
               <<[ok |-> FALSE], "small">>, <<[ok |-> FALSE], "large">>,
               <<[ok |-> FALSE], "throw">>}}
    \cup {[CallSid |-> UnknownSid, RecordingUrl |-> "url", RecordingDuration |-> Duration17,
           py |-> [ok |-> FALSE], head |-> "small", variance |-> 0]}
    \cup {[CallSid |-> sid, RecordingUrl |-> "url", RecordingDuration |-> Duration17,
           py |-> [ok |-> FALSE], head |-> "small", variance |-> 0, update |-> "throw"] :
              sid \in TwilioSids}

\* the stream ids the provider hands out
StreamSids == {"MZ1", "MZ2"}

\* the concurrent callers of ensureServiceRunning
MaxCallers == 4
Callers == 1..MaxCallers

\* --------------------------------------------------------------- actions
Init ==
    /\ calls = << >>
    /\ last = [kind |-> "none"]
    /\ nEvents = 0
    /\ inflight = << >>
    /\ handlers = << >>
    /\ activeStreams = << >>
    /\ windows = << >>
    /\ sent = [s \in StreamSids |-> 0]
    /\ manager = [isStarting |-> FALSE, pc |-> [c \in Callers |-> "idle"]]

\* the voice webhook of the placement the native provider accepted, "" when it
\* accepted none
Handler(log) ==
    LET accepted == {i \in DOMAIN log : log[i].svc = "twilio.calls.create" /\ log[i].out = "ok"}
    IN IF accepted = {} THEN "" ELSE log[CHOOSE i \in accepted : TRUE].arg

\* whether the configuration the strategy requires (process.env) is present
Configured(strategy, env) ==
    IF strategy = "JAMBONZ_SIP" THEN env.jbConfigured
    ELSE IF strategy = "GEMINI_FLASH" THEN env.gemKey
    ELSE TRUE

\* what the dial handler stores once processCall has returned
DialUpdate(result) ==
    [amdResult |-> result.result,
     confidence |-> Some(result.confidence),
     metadata |-> result.metadata,
     status |-> IF result.result = "ERROR" THEN "FAILED" ELSE "INITIATED",
     errorMessage |-> IF result.result = "ERROR" THEN result.metadata.error ELSE "NULL"]

\* the dial entrypoint, for a request that passes dialSchema: create the record,
\* run the strategy's processCall, store its result
Dial(phoneNumber, strategy, env) ==
    /\ Len(phoneNumber) >= 7
    /\ isValidPhoneNumber(phoneNumber)
    /\ LET formatted == formatPhoneNumber(phoneNumber)
           id == Len(calls) + 1
           pc == ProcessCall(strategy, formatted, id, env)
           failed == pc.res.result = "ERROR"
       IN /\ calls' = Append(calls, ApplyUpdate(NewCall(formatted, strategy), DialUpdate(pc.res)))
          /\ last' = [kind |-> "dial", strategy |-> strategy, id |-> id, result |-> pc.res,
                      log |-> pc.log,
                      configured |-> Configured(strategy, env),
                      http |-> 200,
                      status |-> IF failed THEN "failed" ELSE "initiated",
                      message |-> IF failed THEN pc.res.metadata.error
                                  ELSE "Call initiated successfully"]
          /\ handlers' = Append(handlers, Handler(pc.log))
    /\ UNCHANGED <<nEvents, inflight, streamVars, manager>>

\* the dial entrypoint, for a request dialSchema rejects (ZodError, HTTP 400)
DialRejected(phoneNumber, strategy) ==
    /\ ~(Len(phoneNumber) >= 7 /\ isValidPhoneNumber(phoneNumber))
    /\ last' = [kind |-> "dial_rejected", http |-> 400]
    /\ UNCHANGED <<calls, nEvents, inflight, handlers, streamVars, manager>>

\* what a handler's run leaves behind for inspection: the event, the record it
\* resolved (0 for none), handleWebhook's result, the reply, and the writes of
\* other handlers that landed between its lookup and its own write
Outcome(ev, id, read, missed) ==
    [kind |-> "webhook", ev |-> ev, id |-> id,
     res |-> IF id = 0 THEN NullResult ELSE WebhookResult(read, ev),
     reply |-> IF id = 0 THEN NotFoundReply(ev) ELSE Reply(read, ev),
     data |-> IF id = 0 THEN EmptyMeta ELSE Update(read, ev),
     read |-> read,
     missed |-> missed]

\* a webhook handler run from its lookup to its reply with nothing in between
Handle(ev) ==
    /\ nEvents' = nEvents + 1
    /\ UNCHANGED <<inflight, handlers, streamVars, manager>>
    /\ IF Find(calls, ev) = {}
       THEN /\ calls' = calls
            /\ last' = Outcome(ev, 0, EmptyMeta, << >>)
       ELSE \E id \in Find(calls, ev) :
            /\ calls' = [calls EXCEPT ![id] = ApplyUpdate(@, Update(@, ev))]
            /\ last' = Outcome(ev, id, calls[id], << >>)

\* the requests studied in one run: placed calls and webhook events together
MoreEvents == Len(calls) + nEvents < MaxRequests
MoreCalls == Len(calls) < MaxCalls /\ Len(calls) + nEvents < MaxRequests

TwilioStatusEvents == {[ep |-> "twilio_status", body |-> body] : body \in TwilioStatusBodies}
AmdEventsEvents ==
    {[ep |-> "amd_events", body |-> body] : body \in JambonzBodies(JambonzSids \cup TwilioSids)}
JambonzEvents == {[ep |-> "jambonz", body |-> body] : body \in JambonzBodies(JambonzSids)}
VerifyEvents == {[ep |-> "verify", body |-> body] : body \in VerifyBodies}
AudioEvents == {[ep |-> "audio", body |-> body] : body \in AudioBodies}
SpeechResultEvents == {[ep |-> "speech_result", body |-> body] : body \in SpeechResultBodies}
RecordingEvents == {[ep |-> "recording", body |-> body] : body \in RecordingBodies}

TwilioStatus == MoreEvents /\ \E ev \in TwilioStatusEvents : Handle(ev)
AmdEvents == MoreEvents /\ \E ev \in AmdEventsEvents : Handle(ev)
JambonzWebhook == MoreEvents /\ \E ev \in JambonzEvents : Handle(ev)
Verify == MoreEvents /\ \E ev \in VerifyEvents : Handle(ev)
AudioWindow == MoreEvents /\ \E ev \in AudioEvents : Handle(ev)
SpeechResult == MoreEvents /\ \E ev \in SpeechResultEvents : Handle(ev)
Recording == MoreEvents /\ \E ev \in RecordingEvents : Handle(ev)

\* calls placed in one of the three placement situations
Place ==
    MoreCalls /\ \E s \in Strategies : \E e \in PlacementEnvs : Dial(PhoneIN, s, e)

\* calls placed under every combination of collaborator answers
DialAny ==
    MoreCalls /\ \E p \in PhoneInputs, s \in Strategies : \E e \in EnvsOf(s) : Dial(p, s, e)
DialRejectedAny ==
    last.kind # "dial_rejected" /\ \E p \in PhoneInputs, s \in Strategies : DialRejected(p, s)

\* the reconciliation of webhook events into placed calls, one event at a time
Next ==
    \/ Place
    \/ TwilioStatus
    \/ AmdEvents
    \/ JambonzWebhook
    \/ Verify
    \/ AudioWindow
    \/ SpeechResult
    \/ Recording

Spec == Init /\ [][Next]_vars

\* the dial entrypoint alone
NextDial ==
    \/ DialAny
    \/ DialRejectedAny

SpecDial == Init /\ [][NextDial]_vars

\* ------------------------------------------------ handlers that interleave
\* Every handler awaits its lookup (findFirst) and later awaits its write
\* (update); other handlers run in between. A handler in flight holds the
\* record as it read it; its write is computed from that copy.
Events ==
    TwilioStatusEvents \cup AmdEventsEvents \cup JambonzEvents \cup VerifyEvents
        \cup AudioEvents \cup SpeechResultEvents \cup RecordingEvents

\* the lookup: no record ends the handler at once with its not-found reply
Begin(ev) ==
    /\ nEvents' = nEvents + 1
    /\ calls' = calls
    /\ UNCHANGED <<handlers, streamVars, manager>>
    /\ IF Find(calls, ev) = {}
       THEN /\ last' = Outcome(ev, 0, EmptyMeta, << >>)
            /\ inflight' = inflight
       ELSE \E id \in Find(calls, ev) :
            /\ last' = last
            /\ \A h \in DOMAIN inflight : inflight[h].ev # ev
            /\ inflight' = Append(inflight, [ev |-> ev, id |-> id, read |-> calls[id],
                                             missed |-> << >>])

RemoveAt(seq, i) == SubSeq(seq, 1, i - 1) \o SubSeq(seq, i + 1, Len(seq))

\* the write and the reply of the handler in flight at position h
Finish(h) ==
    LET me == inflight[h]
        done == Outcome(me.ev, me.id, me.read, me.missed)
        rest == RemoveAt(inflight, h)
    IN /\ calls' = [calls EXCEPT ![me.id] = ApplyUpdate(@, done.data)]
       /\ last' = done
       /\ inflight' = [k \in DOMAIN rest |->
                         IF rest[k].id = me.id
                         THEN [rest[k] EXCEPT !.missed = Append(@, [ev |-> me.ev, res |-> done.res,
                                                                     data |-> done.data,
                                                                     read |-> me.read])]
                         ELSE rest[k]]
       /\ UNCHANGED <<nEvents, handlers, streamVars, manager>>

BeginAny == MoreEvents /\ \E ev \in Events : Begin(ev)
FinishAny == \E h \in DOMAIN inflight : Finish(h)

NextConc ==
    \/ Place
    \/ BeginAny
    \/ FinishAny

SpecConc == Init /\ [][NextConc]_vars

\* ================================================================ claims
\* the last request was a webhook event that resolved to a call record
Resolved == last.kind = "webhook" /\ last.id # 0
\* that record as the handler read it, and as it is stored now
Before == last.read
After == calls[last.id]

TwilioStatusVocabulary ==
    {"queued", "initiated", "ringing", "in-progress", "completed", "failed", "busy",
     "no-answer", "canceled"}
JambonzStatusVocabulary ==
    {"trying", "proceeding", "ringing", "early", "in-progress", "completed", "failed", "busy",
     "no-answer", "canceled"}

\* whether an outcome's event carries a detection result: a non-null
\* handleWebhook result on the endpoints that go through handleWebhook, a verdict
\* in the update on the others
VerdictCarrying(o) ==
    IF o.ev.ep \in ViaHandleWebhook THEN ~IsNull(o.res) ELSE "amdResult" \in DOMAIN o.data
\* whether it carries a status change and no detection signal
StatusOnly(o) == o.ev.ep \in ViaHandleWebhook /\ IsNull(o.res)
\* the metadata keys the event adds to the record its handler read
Contributed(o) ==
    IF "metadata" \in DOMAIN o.data
    THEN DOMAIN o.data.metadata \ DOMAIN o.read.metadata
    ELSE {}

\* C1 (as claimed): with events handled one after another, once the stored
\* verdict is HUMAN or MACHINE the next event never leaves UNDECIDED stored.
C1_NoRegressToUndecided ==
    (Resolved /\ Before.amdResult \in {"HUMAN", "MACHINE"}) => After.amdResult # "UNDECIDED"

\* C2 (as claimed): when a status-only event and a verdict-carrying event for
\* the same call overlap (one wrote between the other's read and write), the
\* stored verdict after both have finished is the one the verdict-carrying
\* event wrote.
C2_VerdictSurvivesOverlap ==
    (Resolved /\ Len(last.missed) = 1) =>
        LET other == last.missed[1]
        IN /\ (StatusOnly(last) /\ VerdictCarrying(other))
                => After.amdResult = other.data.amdResult
           /\ (VerdictCarrying(last) /\ StatusOnly(other))
                => After.amdResult = last.data.amdResult

\* C3 (as claimed): an event handled on its own never loses a metadata key the
\* record held, and the provider call ids keep their values.
C3_NoMetadataKeyLost ==
    Resolved =>
        \A k \in DOMAIN Before.metadata :
            /\ k \in DOMAIN After.metadata
            /\ k \in {"twilioCallSid", "jambonzCallSid"} => After.metadata[k] = Before.metadata[k]

\* C4 (as claimed): when two events for the same call that add disjoint
\* metadata keys overlap, the record afterwards has the keys of both.
C4_BothContributionsKept ==
    (Resolved /\ Len(last.missed) = 1) =>
        LET other == last.missed[1]
        IN (/\ Contributed(last) # {}
            /\ Contributed(other) # {}
            /\ Contributed(last) \cap Contributed(other) = {})
           => (Contributed(last) \cup Contributed(other)) \subseteq DOMAIN After.metadata

\* C5: an event for which handleWebhook returned null, handled on its own,
\* leaves the stored verdict, confidence and metadata as they were (whatever
\* result came first, HUMAN included); status, duration and cost may change.
C5_NullResultKeepsVerdict ==
    (Resolved /\ last.ev.ep \in ViaHandleWebhook /\ IsNull(last.res)) =>
        /\ After.amdResult = Before.amdResult
        /\ After.confidence = Before.confidence
        /\ After.metadata = Before.metadata

\* a HUMAN verdict from a non-null handleWebhook result is stored, then an
\* event with a null result changes the status and leaves the verdict alone
C5_Witness ==
    /\ Resolved /\ last.ev.ep \in ViaHandleWebhook /\ IsNull(last.res)
    /\ Before.amdResult = "HUMAN"
    /\ \E k \in {"twilioAmd", "jambonzAmd"} : k \in DOMAIN Before.metadata
    /\ After.status # Before.status
    /\ After.amdResult = "HUMAN"

C7_NativeCallbackMapping ==
    (/\ Resolved
     /\ last.ev.ep = "twilio_status"
     /\ Str(last.ev.body, "AnsweredBy") # ""
     /\ Str(last.ev.body, "AnsweringMachineDetectionStatus") = "")
    => /\ last.ev.body.AnsweredBy = "human"
            => (After.amdResult = "HUMAN" /\ After.confidence = Some(85))
       /\ last.ev.body.AnsweredBy = "machine_end_beep"
            => (After.amdResult = "MACHINE" /\ After.confidence = Some(80))
       /\ Str(last.ev.body, "CallStatus") = "completed" => After.status = "COMPLETED"
       /\ Str(last.ev.body, "CallStatus") = "ringing" => After.status = "RINGING"

\* a call dialed with the native strategy goes from INITIATED to COMPLETED with
\* MACHINE at 0.8 on a completed callback with answered-by machine_end_beep
C7_Witness ==
    /\ Resolved /\ last.ev.ep = "twilio_status"
    /\ Before.amdStrategy = "TWILIO_NATIVE"
    /\ Before.status = "INITIATED"
    /\ Str(last.ev.body, "CallStatus") = "completed"
    /\ Str(last.ev.body, "AnsweredBy") = "machine_end_beep"
    /\ After.status = "COMPLETED"
    /\ After.amdResult = "MACHINE"
    /\ After.confidence = Some(80)

\* C8 (as claimed): in the three handlers that map a provider status, an
\* event whose status value is absent or outside the mapped vocabulary leaves
\* the record's status as it was.
C8_UnmappedStatusKeepsStatus ==
    (/\ Resolved
     /\ \/ /\ last.ev.ep = "twilio_status"
           /\ Str(last.ev.body, "CallStatus") \notin TwilioStatusVocabulary
        \/ /\ last.ev.ep \in {"amd_events", "jambonz"}
           /\ Str(last.ev.body, "call_status") \notin JambonzStatusVocabulary)
    => After.status = Before.status

\* the positions in a processCall log where the native placement was made
NativePlacements(log) ==
    {i \in DOMAIN log : log[i].svc = "twilio.calls.create" /\ log[i].arg = "voice"}
\* the last request was a dial whose strategy, not the native one, took the
\* fallback path
FellBack ==
    /\ last.kind = "dial"
    /\ last.strategy # "TWILIO_NATIVE"
    /\ NativePlacements(last.log) # {}

\* C9 (as claimed): a processCall of the three non-native strategies that
\* falls back returns metadata with fallbackUsed = true and a non-empty
\* fallbackReason.
C9_FallbackIsMarked ==
    FellBack =>
        /\ "fallbackUsed" \in DOMAIN last.result.metadata
        /\ last.result.metadata.fallbackUsed = TRUE
        /\ "fallbackReason" \in DOMAIN last.result.metadata
        /\ last.result.metadata.fallbackReason # ""

\* C10: a processCall that falls back returns the verdict and confidence of
\* the native processCall under the same answer of the native provider, and
\* every metadata key of the native result with its value.
C10_FallbackEqualsNative ==
    FellBack =>
        LET i == CHOOSE j \in NativePlacements(last.log) : TRUE
            native == TwilioProcessCall(calls[last.id].targetNumber, last.id, last.log[i].out).res
        IN /\ last.result.result = native.result
           /\ last.result.confidence = native.confidence
           /\ \A k \in DOMAIN native.metadata :
                /\ k \in DOMAIN last.result.metadata
                /\ last.result.metadata[k] = native.metadata[k]

\* the alternate provider rejected every number format and the native
\* placement that followed was accepted
C10_Witness ==
    /\ FellBack
    /\ last.strategy = "JAMBONZ_SIP"
    /\ Len(last.log) > 2
    /\ last.result.result = "UNDECIDED"
    /\ last.result.metadata.twilioCallSid = TwilioSid(last.id)
    /\ last.result.metadata.fallbackUsed

\* the number variants of the ladder for a canonical number: raw, without the
\* leading plus, and without the country code
LadderVariants(number) ==
    <<number,
      Tail(number),
      IF SubSeq(number, 1, 3) = <<"+", "9", "1">> THEN SubSeq(number, 4, Len(number))
      ELSE IF SubSeq(number, 1, 2) = <<"+", "1">> THEN SubSeq(number, 3, Len(number))
      ELSE Tail(number)>>
\* an alternate-provider placement request the provider accepted (response.ok)
Accepted(out) == out \in {"ok", "ok_unreadable"}

\* C11 (as claimed): the SIP-Enhanced processCall follows the ladder in order.
\* Without configuration it makes no health probe and no alternate placement
\* and falls back; otherwise it probes first and, unhealthy, falls back without
\* an alternate placement; otherwise it submits the variants raw, without
\* plus, without country code in that order, stops at the first accepted one,
\* and places the native call only after all three have failed.
C11_LadderInOrder ==
    (last.kind = "dial" /\ last.strategy = "JAMBONZ_SIP") =>
        LET log == last.log
            probes == {i \in DOMAIN log : log[i].svc = "jambonz.health"}
            tries == {i \in DOMAIN log : log[i].svc = "jambonz.calls"}
            natives == NativePlacements(log)
            variants == LadderVariants(calls[last.id].targetNumber)
        IN /\ ~last.configured => (probes = {} /\ tries = {} /\ natives # {})
           /\ last.configured => probes = {1}
           /\ (last.configured /\ log[1].out # "ok") => (tries = {} /\ natives # {})
           /\ \E n \in 0..3 :
                /\ tries = {i \in 2..(n + 1) : last.configured}
                /\ \A i \in tries : log[i].arg = variants[i - 1]
           /\ \A i \in tries :
                Accepted(log[i].out) => (natives = {} /\ \A j \in tries : j <= i)
           /\ (natives # {} /\ tries # {}) =>
                (Cardinality(tries) = 3 /\ \A i \in tries : ~Accepted(log[i].out))
           /\ \A i \in natives : i = Len(log)

\* ------------------------------------------ the dial entrypoint, await by await
\* The dial handler awaits prisma.call.create, then detector.processCall, then
\* prisma.call.update. Between the first and the last the record is in the
\* store as created. "never" is a collaborator that does not respond.
\*   checkJambonzAvailability    AbortSignal.timeout(5000): aborts, caught, false
\*   the alternate placement     AbortSignal.timeout(10000): aborts, caught, next format
\*   ensurePythonServiceRunning  AbortSignal.timeout(3000): aborts, caught, null
\*   testGeminiAvailability      awaits generateContent with no timeout
\* The native client's request (calls.create) is bounded by the client
\* library; its timeout surfaces as the answer "err".
EnvsAwait(strategy) ==
    IF strategy = "TWILIO_NATIVE"
    THEN {[AllUp EXCEPT !.tw = tw] : tw \in TwilioAnswers}
    ELSE IF strategy = "JAMBONZ_SIP"
    THEN {[AllUp EXCEPT !.tw = tw, !.jbConfigured = c, !.jbHealth = h, !.jbResp = r] :
            tw \in TwilioAnswers, c \in BOOLEAN, h \in {"ok", "notok", "throw", "never"},
            r \in [1..3 -> {"ok", "reject", "never"}]}
    ELSE IF strategy = "HUGGINGFACE_MODEL"
    THEN {[AllUp EXCEPT !.tw = tw, !.twPrimary = p, !.pyHealth = h] :
            tw \in TwilioAnswers, p \in {"ok", "throw"}, h \in {"ok", "notok", "throw", "never"}}
    ELSE {[AllUp EXCEPT !.tw = tw, !.twPrimary = p, !.gemKey = k, !.gemProbe = g] :
            tw \in TwilioAnswers, p \in {"ok", "throw"}, k \in BOOLEAN,
            g \in {"ok", "fail", "never"}}

\* whether processCall is left waiting on an await that nothing bounds
Pending(strategy, env) ==
    strategy = "GEMINI_FLASH" /\ env.gemKey /\ env.gemProbe = "never"

\* the dial handler up to its await of processCall: the record is created
DialBegin(phoneNumber, strategy, env) ==
    /\ Len(phoneNumber) >= 7
    /\ isValidPhoneNumber(phoneNumber)
    /\ calls' = Append(calls, NewCall(formatPhoneNumber(phoneNumber), strategy))
    /\ last' = [kind |-> "dial_pending", strategy |-> strategy, id |-> Len(calls) + 1,
                env |-> env]
    /\ handlers' = Append(handlers, "")
    /\ UNCHANGED <<nEvents, inflight, streamVars, manager>>

\* the dial handler from processCall's return on: store the result, reply
DialReturn ==
    /\ last.kind = "dial_pending"
    /\ ~Pending(last.strategy, last.env)
    /\ LET id == last.id
           pc == ProcessCall(last.strategy, calls[id].targetNumber, id, last.env)
           failed == pc.res.result = "ERROR"
       IN /\ calls' = [calls EXCEPT ![id] = ApplyUpdate(@, DialUpdate(pc.res))]
          /\ last' = [kind |-> "dial", strategy |-> last.strategy, id |-> id,
                      result |-> pc.res, log |-> pc.log,
                      configured |-> Configured(last.strategy, last.env),
                      http |-> 200,
                      status |-> IF failed THEN "failed" ELSE "initiated",
                      message |-> IF failed THEN pc.res.metadata.error
                                  ELSE "Call initiated successfully"]
          /\ handlers' = [handlers EXCEPT ![id] = Handler(pc.log)]
    /\ UNCHANGED <<nEvents, inflight, streamVars, manager>>

DialBeginAny ==
    /\ MoreCalls
    /\ last.kind # "dial_pending"
    /\ \E s \in Strategies : \E e \in EnvsAwait(s) : DialBegin(PhoneIN, s, e)

NextAwait ==
    \/ DialBeginAny
    \/ DialReturn

\* a handler whose awaited promise has settled is resumed by the event loop
SpecAwait == Init /\ [][NextAwait]_vars /\ WF_vars(DialReturn)

\* C12 (as claimed): whatever the collaborators do, not answering included,
\* processCall returns a Detection Result: a dial request that has created its
\* record and awaits processCall is eventually resumed with a result.
C12_ProcessCallReturns ==
    (last.kind = "dial_pending") ~> (last.kind = "dial")

\* ------------------------------------------------- events that cannot be read
\* Every handler reads its body first (request.formData(), request.json(),
\* JSON.parse); a body that cannot be read throws into the handler's catch.
\* What the catch answers: whether the HTTP status reports a failure, and what
\* the body tells the provider to do.
Endpoints ==
    {"twilio_status", "amd_events", "jambonz", "verify", "audio", "speech_result", "recording"}

MalformedReply(ep) ==
    IF ep \in {"twilio_status", "jambonz"} THEN [failed |-> TRUE, reply |-> "error"]
    ELSE IF ep \in {"amd_events", "verify"} THEN [failed |-> TRUE, reply |-> "hangup"]
    ELSE IF ep = "audio" THEN [failed |-> FALSE, reply |-> "none"]
    ELSE [failed |-> FALSE, reply |-> "say_error_hangup"]

\* a handler run on a body it cannot read
HandleMalformed(ep) ==
    /\ nEvents' = nEvents + 1
    /\ last' = [kind |-> "malformed", ep |-> ep,
                failed |-> MalformedReply(ep).failed, reply |-> MalformedReply(ep).reply]
    /\ UNCHANGED <<calls, inflight, handlers, streamVars, manager>>

Malformed == MoreEvents /\ \E ep \in Endpoints : HandleMalformed(ep)

NextIntake ==
    \/ Next
    \/ Malformed

\* the webhook intake with unreadable events among the readable ones
SpecIntake == Init /\ [][NextIntake]_vars

\* the event of the last handler run matched no record or could not be read
Unresolvable ==
    \/ last.kind = "malformed"
    \/ last.kind = "webhook" /\ last.id = 0

\* the answers that tell the provider to hang up or to do nothing
SafeReplies == {"ok", "hangup", "none", "say_error_hangup"}

\* C13 (as claimed): on every intake endpoint, an event that matches no call
\* record or whose payload is malformed changes no call record, is answered
\* with a hang-up or no-op, and is never answered with an error outcome.
C13_UnresolvableIsBenign ==
    [][Unresolvable' =>
         /\ calls' = calls
         /\ last'.reply \in SafeReplies
         /\ last'.kind = "malformed" => ~last'.failed]_vars

\* a plus sign followed by 10 to 15 digits
PlusAndDigits(number) ==
    /\ Len(number) \in 11..16
    /\ number[1] = "+"
    /\ \A i \in 2..Len(number) : number[i] \in Digits

C15_RecordFromDialTime ==
    /\ last.kind = "dial_pending" =>
         /\ calls[last.id].status = "INITIATED"
         /\ calls[last.id].amdResult = "UNDECIDED"
    /\ last.kind = "dial" =>
         IF last.result.result = "ERROR"
         THEN /\ calls[last.id].status = "FAILED"
              /\ calls[last.id].errorMessage = last.result.metadata.error
              /\ last.status = "failed"
              /\ last.message = last.result.metadata.error
         ELSE /\ calls[last.id].status = "INITIATED"
              /\ last.status = "initiated"

\* ---------------------------------------- two calls and overlapping handlers
\* Two calls are placed, then events for either of them are handled, their
\* handlers overlapping at their awaits.
MaxPairCalls == 2
MaxPairRequests == 4

\* the provider call id an event carries
EventSid(ev) ==
    IF ev.ep \in {"twilio_status", "speech_result", "recording"} THEN ev.body.CallSid
    ELSE IF ev.ep = "audio" THEN ev.body.callSid
    ELSE ev.body.call_sid

\* of each endpoint's events, those that report a human for a provider call id
\* handed out so far
PairEvents ==
    {ev \in TwilioStatusEvents :
        ev.body.CallStatus = "completed" /\ ev.body.AnsweredBy = "human"}
    \cup {ev \in AmdEventsEvents \cup JambonzEvents :
            ev.body.amd_human_detected /\ ev.body.call_status = "completed"}
    \cup {ev \in VerifyEvents : ev.body.confidence = Some(95) /\ ev.body.speech = <<"H", "i">>}
    \cup {ev \in AudioEvents : ev.body.ml.ok /\ ev.body.ml.confidence = 95}
    \cup {ev \in SpeechResultEvents :
            ev.body.llm.out = "ok" /\ ev.body.llm.words = {"human"}}
    \cup {ev \in RecordingEvents : ev.body.py.ok}

PlacePair ==
    /\ Len(calls) < MaxPairCalls
    /\ nEvents = 0
    /\ \E s \in Strategies : \E e \in {AllUp, AllDown} : Dial(PhoneIN, s, e)

BeginPair ==
    /\ Len(calls) >= 2
    /\ Len(calls) + nEvents < MaxPairRequests
    /\ \E ev \in PairEvents : Begin(ev)

NextPair ==
    \/ PlacePair
    \/ BeginPair
    \/ FinishAny

SpecPair == Init /\ [][NextPair]_vars

\* whether a record stores the provider call id under either provider's key
StoresSid(call, sid) ==
    \E k \in {"twilioCallSid", "jambonzCallSid"} :
        k \in DOMAIN call.metadata /\ call.metadata[k] = sid

\* C16: events for different calls do not interfere. A request changes a
\* record already in the store only as the write of a webhook handler whose
\* event carries provider call id X, and then the record changed is the one the
\* handler read, which stored X; every other record is unchanged, whatever
\* other handlers are in flight.
C16_OtherCallsUntouched ==
    [][\A i \in DOMAIN calls :
          calls'[i] # calls[i] =>
             /\ last'.kind = "webhook"
             /\ last'.id = i
             /\ StoresSid(last'.read, EventSid(last'.ev))]_vars

\* a handler for one call has written while a handler for the other call,
\* begun before that write, is still in flight
C16_Witness ==
    /\ Len(calls) = 2
    /\ Resolved
    /\ calls[last.id] # last.read
    /\ \E h \in DOMAIN inflight : inflight[h].id # last.id

\* C17 (as claimed): the shared AMD-event endpoint declares call not found only
\* when no record stores the event's call id under jambonzCallSid or
\* twilioCallSid; when some record stores it under one of the two, the event
\* is resolved to a record that stores it.
C17_BothNamespacesChecked ==
    (last.kind = "webhook" /\ last.ev.ep = "amd_events") =>
        /\ last.id = 0 => ~\E i \in DOMAIN calls : StoresSid(calls[i], EventSid(last.ev))
        /\ last.id # 0 => StoresSid(last.read, EventSid(last.ev))

\* -------------------------------------------------- the media-stream route
\* handleWebSocketMessage keeps one buffer per stream id in activeStreams. A
\* media message appends its chunk; once the buffered chunks stand for
\* WindowMs of audio (ChunkMs each) the buffer is handed to processAudioChunk
\* and emptied. stop hands over what is left and deletes the buffer. The
\* buffer's timestamp (Date.now()) is never read and is left out.
ChunkMs == 20
WindowMs == 2000
MaxMedia == 101

\* processAudioChunk(callSid, audioData), inf being what the ML service and
\* the LLM answer for this window: the store afterwards, and the window with
\* the inference calls and record updates it led to
processAudioChunk(store, streamSid, callSid, chunks, inf) ==
    LET body == [callSid |-> callSid, ml |-> inf[1], llm |-> inf[2]]
        found == AudioFind(store, body)
    IN IF found = {}
       THEN [calls |-> store,
             window |-> [streamSid |-> streamSid, callSid |-> callSid, chunks |-> chunks,
                         id |-> 0, inferences |-> 0, updates |-> 0]]
       ELSE LET id == CHOOSE i \in found : TRUE
                data == AudioUpdate(store[id], body)
                written == DOMAIN data # {}
            IN [calls |-> IF written THEN [store EXCEPT ![id] = ApplyUpdate(@, data)] ELSE store,
                window |-> [streamSid |-> streamSid, callSid |-> callSid, chunks |-> chunks,
                            id |-> id,
                            inferences |-> IF store[id].amdStrategy \in
                                                {"HUGGINGFACE_MODEL", "GEMINI_FLASH"}
                                           THEN 1 ELSE 0,
                            updates |-> IF written THEN 1 ELSE 0]]

\* the ML service's answers for a window: no answer, or a human
StreamInferences == {inf \in AudioInferences : ~inf[1].ok \/ inf[1].label = "human"}

\* case "start": the provider opens a stream for a call whose voice webhook
\* (voice-stream) answered with <Start><Stream>
StreamStart(s, c) ==
    /\ s \notin DOMAIN activeStreams
    /\ sent[s] = 0
    /\ handlers[c] = "voice-stream"
    /\ activeStreams' = Spread(activeStreams,
                               [x \in {s} |-> [chunks |-> << >>, callSid |-> TwilioSid(c)]])
    /\ UNCHANGED <<calls, last, nEvents, inflight, handlers, windows, sent, manager>>

\* a variant of case "media" with one buffer shared by the streams: the chunk
\* is appended to every active buffer; C19 depends on the buffers being
\* keyed by stream id
StreamMediaShared(s) ==
    /\ s \in DOMAIN activeStreams
    /\ sent' = [sent EXCEPT ![s] = @ + 1]
    /\ activeStreams' = [x \in DOMAIN activeStreams |->
                           [activeStreams[x] EXCEPT !.chunks = Append(@, <<s, sent[s] + 1>>)]]
    /\ UNCHANGED <<calls, last, nEvents, inflight, handlers, windows, manager>>

\* a variant of case "media" that submits the window one chunk late, when the
\* buffer holds more than a window
StreamMediaLate(s) ==
    /\ s \in DOMAIN activeStreams
    /\ sent' = [sent EXCEPT ![s] = @ + 1]
    /\ LET stream == activeStreams[s]
           chunks == Append(stream.chunks, <<s, sent[s] + 1>>)
       IN IF Len(chunks) * ChunkMs > WindowMs
          THEN \E inf \in StreamInferences :
                 LET out == processAudioChunk(calls, s, stream.callSid, chunks, inf)
                 IN /\ calls' = out.calls
                    /\ windows' = Append(windows, out.window)
                    /\ activeStreams' = [activeStreams EXCEPT ![s].chunks = << >>]
          ELSE /\ activeStreams' = [activeStreams EXCEPT ![s].chunks = chunks]
               /\ UNCHANGED <<calls, windows>>
    /\ UNCHANGED <<last, nEvents, inflight, handlers, manager>>

\* case "media": the chunk is the sent[s]+1-th of stream s
StreamMedia(s) ==
    /\ s \in DOMAIN activeStreams
    /\ sent' = [sent EXCEPT ![s] = @ + 1]
    /\ LET stream == activeStreams[s]
           chunks == Append(stream.chunks, <<s, sent[s] + 1>>)
       IN IF Len(chunks) * ChunkMs >= WindowMs
          THEN \E inf \in StreamInferences :
                 LET out == processAudioChunk(calls, s, stream.callSid, chunks, inf)
                 IN /\ calls' = out.calls
                    /\ windows' = Append(windows, out.window)
                    /\ activeStreams' = [activeStreams EXCEPT ![s].chunks = << >>]
          ELSE /\ activeStreams' = [activeStreams EXCEPT ![s].chunks = chunks]
               /\ UNCHANGED <<calls, windows>>
    /\ UNCHANGED <<last, nEvents, inflight, handlers, manager>>

\* case "stop"
StreamStop(s) ==
    /\ s \in DOMAIN activeStreams
    /\ LET stream == activeStreams[s]
       IN IF Len(stream.chunks) > 0
          THEN \E inf \in StreamInferences :
                 LET out == processAudioChunk(calls, s, stream.callSid, stream.chunks, inf)
                 IN /\ calls' = out.calls
                    /\ windows' = Append(windows, out.window)
          ELSE UNCHANGED <<calls, windows>>
    /\ activeStreams' = DropKey(activeStreams, s)
    /\ UNCHANGED <<last, nEvents, inflight, handlers, sent, manager>>

RECURSIVE TotalSent(_)
TotalSent(sids) ==
    IF sids = {} THEN 0
    ELSE LET s == CHOOSE x \in sids : TRUE IN sent[s] + TotalSent(sids \ {s})

\* streaming calls placed with the ML service up or down, as many as there
\* are stream ids
PlaceStream ==
    /\ Len(calls) < Cardinality(StreamSids)
    /\ \E e \in {AllUp, AllDown} : Dial(PhoneIN, "HUGGINGFACE_MODEL", e)
StartAny == \E s \in StreamSids : \E c \in 1..Len(calls) : StreamStart(s, c)
MediaAny == TotalSent(StreamSids) < MaxMedia /\ \E s \in StreamSids : StreamMedia(s)
StopAny == \E s \in StreamSids : StreamStop(s)

NextStream ==
    \/ PlaceStream
    \/ StartAny
    \/ MediaAny
    \/ StopAny

SpecStream == Init /\ [][NextStream]_vars

\* the chunks of a window, as a set
ChunksOf(window) == {window.chunks[i] : i \in DOMAIN window.chunks}

\* no chunk is contained twice in a window or in two windows
NoChunkTwice ==
    /\ \A i \in DOMAIN windows : Cardinality(ChunksOf(windows[i])) = Len(windows[i].chunks)
    /\ \A i, j \in DOMAIN windows : i < j => ChunksOf(windows[i]) \cap ChunksOf(windows[j]) = {}

\* C18 (as claimed): every audio window submitted for processing triggers
\* exactly one inference call and exactly one call-record update, and no audio
\* chunk is contained in more than one submitted window.
C18_OneInferenceOneUpdate ==
    /\ \A i \in DOMAIN windows : windows[i].inferences = 1 /\ windows[i].updates = 1
    /\ NoChunkTwice

\* the chunks buffered for a stream, none when it has no buffer
Buffered(s) == IF s \in DOMAIN activeStreams THEN activeStreams[s].chunks ELSE << >>

\* the step handles a start, media or stop message of stream s
MessageOf(s) ==
    \/ sent'[s] # sent[s]
    \/ (s \in DOMAIN activeStreams) # (s \in DOMAIN activeStreams')

\* C19: streaming calls keep independent buffers keyed by stream id. A start,
\* media or stop message of stream A leaves the chunks buffered for every
\* other stream B as they were, and a window submitted by it contains only
\* chunks received on A and carries the call id A was started with.
C19_BuffersIndependent ==
    [][/\ \A a, b \in StreamSids : (a # b /\ MessageOf(a)) => Buffered(b)' = Buffered(b)
       /\ windows' # windows =>
            LET w == windows'[Len(windows')]
            IN /\ Len(windows') = Len(windows) + 1
               /\ MessageOf(w.streamSid)
               /\ \A chunk \in ChunksOf(w) : chunk[1] = w.streamSid
               /\ w.callSid = activeStreams[w.streamSid].callSid]_vars

\* a window has been submitted for one stream while another stream, started
\* for another call, has chunks buffered
C19_Witness ==
    \E a, b \in StreamSids :
        /\ a # b
        /\ b \in DOMAIN activeStreams
        /\ Len(activeStreams[b].chunks) > 0
        /\ \E i \in DOMAIN windows :
              /\ windows[i].streamSid = a
              /\ windows[i].callSid # activeStreams[b].callSid
              /\ Len(windows[i].chunks) * ChunkMs >= WindowMs

\* call i was placed by the Streaming-ML strategy after its health probe failed
ProbeFailed(i) ==
    /\ calls[i].amdStrategy = "HUGGINGFACE_MODEL"
    /\ "fallbackReason" \in DOMAIN calls[i].metadata
    /\ calls[i].metadata.fallbackReason = "Python service unavailable"

\* C20: when the Streaming-ML strategy's health probe fails, the placement is
\* the native strategy's, with the native voice webhook, and no media stream is
\* ever started and no audio buffer ever created or processed for that call.
C20_NoStreamAfterFailedProbe ==
    /\ \A i \in DOMAIN calls :
         ProbeFailed(i) =>
            /\ handlers[i] \in {"voice", ""}
            /\ \A s \in DOMAIN activeStreams : activeStreams[s].callSid # TwilioSid(i)
            /\ \A w \in DOMAIN windows : windows[w].callSid # TwilioSid(i)
    /\ (last.kind = "dial" /\ ProbeFailed(last.id)) =>
            /\ NativePlacements(last.log) # {}
            /\ \A k \in DOMAIN last.log : last.log[k].arg # "voice-stream"

\* a call placed natively after a failed probe is answered (its webhook is the
\* native one) while a stream of another call has delivered audio
C20_Witness ==
    \E i \in DOMAIN calls :
        /\ ProbeFailed(i)
        /\ handlers[i] = "voice"
        /\ windows # << >>
        /\ activeStreams # << >>

\* ------------------------------------------------ replies to the provider
\* the verbs of the replies of the AMD-events endpoint and of the
\* alternate-provider webhook, in order; "gather" is the speech capture with
\* speechTimeout 3 whose webhook is /api/amd-events/verify
ReplyVerbs(reply) ==
    IF reply = "say_ack_hangup" THEN <<"say", "pause", "say", "hangup">>
    ELSE IF reply = "hangup" THEN <<"hangup">>
    ELSE IF reply = "say_prompt_gather" THEN <<"say", "gather">>
    ELSE IF reply = "pause_say_hello" THEN <<"pause", "say">>
    ELSE IF reply \in {"say_verified", "say_prompt"} THEN <<"say">>
    ELSE << >>

\* the signal of an alternate-provider event, by the precedence of its flags
Signal(body) ==
    IF Flag(body, "amd_human_detected") THEN "human"
    ELSE IF Flag(body, "amd_machine_detected") THEN "machine"
    ELSE IF Flag(body, "amd_decision_timeout") THEN "timeout"
    ELSE "none"

\* C21 (as claimed): once the record is updated, the reply follows the signal:
\* human gives an acknowledgement followed by hang-up, machine gives hang-up
\* alone, timeout gives a prompt followed by the speech capture that posts to
\* the verification endpoint, no signal gives a holding action without hang-up.
C21_ReplyFollowsSignal ==
    (Resolved /\ last.ev.ep \in {"amd_events", "jambonz"}) =>
        LET verbs == ReplyVerbs(last.reply)
            signal == Signal(last.ev.body)
        IN /\ signal = "human" =>
                /\ verbs # << >>
                /\ verbs[1] = "say"
                /\ verbs[Len(verbs)] = "hangup"
           /\ signal = "machine" => verbs = <<"hangup">>
           /\ signal = "timeout" => verbs = <<"say", "gather">>
           /\ signal = "none" =>
                /\ verbs # << >>
                /\ \A i \in DOMAIN verbs : verbs[i] # "hangup"

\* C22 (as claimed): the action returned for an event goes with the call's
\* current verdict: when the human-confirmed action is returned the stored
\* verdict is HUMAN, when the machine-confirmed hang-up is returned it is
\* MACHINE, for calls of every strategy the endpoint resolves.
C22_ActionMatchesVerdict ==
    (Resolved /\ last.ev.ep \in {"amd_events", "jambonz"}) =>
        /\ last.reply \in {"say_ack_hangup", "say_verified"} => After.amdResult = "HUMAN"
        /\ last.reply = "hangup" => After.amdResult = "MACHINE"

\* the provider that carried a call, by what its placement stored
CarriedBy(call) ==
    IF "actualProvider" \in DOMAIN call.metadata THEN call.metadata.actualProvider
    ELSE IF "jambonzCallSid" \in DOMAIN call.metadata THEN "jambonz"
    ELSE "twilio"

\* calculateCost's rates per provider, in the units of calculateCost
ProviderRate(provider) == IF provider = "jambonz" THEN 80 ELSE 85

\* C23 (as claimed): a cost is stored only by an event that carries a
\* duration, and it is the duration times the rate of the provider that
\* carried the call, the same rate on every endpoint: a SIP-Enhanced call
\* that fell back to the native provider is costed at the native rate.
C23_CostByCarryingProvider ==
    (Resolved /\ "cost" \in DOMAIN last.data /\ last.data.cost # None) =>
        /\ "duration" \in DOMAIN last.data
        /\ last.data.duration # None
        /\ last.data.cost[1] = last.data.duration[1] * ProviderRate(CarriedBy(last.read))

\* ------------------------------------------------ operations applied alone
\* the values the native provider reports for the answering party
AnsweringValues ==
    {"human", "machine_start", "machine_end_beep", "machine_end_silence",
     "machine_end_other", "machine", "fax", "unknown"}

Field(k, v) == IF v = "" THEN EmptyMeta ELSE [x \in {k} |-> v]

NativePayloads ==
    {Spread(Field("AnsweringMachineDetectionStatus", a), Field("AnsweredBy", b)) :
        a \in AnsweringValues \cup {""}, b \in AnsweringValues \cup {""}}

\* each flag of the alternate provider's event is absent, false or true
FlagField(k, v) == IF v = "absent" THEN EmptyMeta ELSE [x \in {k} |-> (v = "true")]

SipPayloads ==
    {Spread(FlagField("amd_human_detected", h),
            Spread(FlagField("amd_machine_detected", m), FlagField("amd_decision_timeout", t))) :
        h \in {"absent", "false", "true"},
        m \in {"absent", "false", "true"},
        t \in {"absent", "false", "true"}}

Applied(op, input, res) == [kind |-> "applied", op |-> op, input |-> input, res |-> res]

NativeWebhook ==
    /\ \E payload \in NativePayloads :
          last' = Applied("TwilioNativeDetector.handleWebhook", payload, TwilioHandleWebhook(payload))
    /\ UNCHANGED <<calls, nEvents, inflight, handlers, streamVars, manager>>

SipWebhook ==
    /\ \E payload \in SipPayloads :
          last' = Applied("JambonzSipDetector.handleWebhook", payload, JambonzHandleWebhook(payload))
    /\ UNCHANGED <<calls, nEvents, inflight, handlers, streamVars, manager>>

\* the responses of the LLM to a transcript prompt: structured ones with any
\* classification and confidence, unstructured ones with any keywords, and
\* structured ones in the shape the prompt for noisy audio asks for
LlmClassifications == {"", "human", "machine", "voicemail", "unsure"}
LlmConfidences == {0, 90, 150}
LlmKeywords == {"human", "machine", "voicemail"}

LlmFnResponses ==
    {[out |-> "throw"]}
    \cup {[out |-> "ok", json |-> TRUE,
           obj |-> Spread(Field("classification", c),
                          IF k = 0 THEN EmptyMeta ELSE [confidence |-> k]),
           words |-> {c} \cap LlmKeywords] : c \in LlmClassifications, k \in LlmConfidences}
    \cup {[out |-> "ok", json |-> FALSE, obj |-> EmptyMeta, words |-> w] : w \in SUBSET LlmKeywords}
    \cup {[out |-> "ok", json |-> TRUE, obj |-> [type |-> t, conf |-> k], words |-> {t}] :
              t \in {"human", "machine"}, k \in LlmConfidences \ {0}}

TextAnalysis ==
    /\ \E genAI \in BOOLEAN, audioQuality \in {"", "poor"}, noiseLevel \in {"", "high"},
          llm \in LlmFnResponses :
          last' = Applied("GeminiFlashDetector.processAudioText",
                          [genAI |-> genAI, transcript |-> Transcript,
                           audioQuality |-> audioQuality, noiseLevel |-> noiseLevel, llm |-> llm],
                          processAudioText(genAI, Transcript, audioQuality, noiseLevel, llm))
    /\ UNCHANGED <<calls, nEvents, inflight, handlers, streamVars, manager>>

\* captured speech: none, blank, with an opener word in either case, short
\* and long without one; and the confidence the provider reports for it
Speeches ==
    {<< >>, <<" ", " ", " ">>, <<"H", "i">>, <<"H", "I">>, <<"n", "o">>, <<" ", "n", "o", " ">>,
     <<"a", "b", "c">>, <<" ", "o", "k", " ">>, <<"b", "e", "e", "p">>, <<"a">>}
SpeechConfidences == {None, Some(0), Some(60), Some(95), Some(150)}

SpeechVerification ==
    /\ \E speech \in Speeches, confidence \in SpeechConfidences :
          LET body == Spread([call_sid |-> UnknownSid, confidence |-> confidence],
                             IF speech = << >> THEN EmptyMeta ELSE [speech |-> speech])
          IN last' = Applied("verify", body, VerifyUpdate([metadata |-> EmptyMeta], body))
    /\ UNCHANGED <<calls, nEvents, inflight, handlers, streamVars, manager>>

\* canonical numbers: a plus sign, a leading group of digits and a filling
\* digit up to every length from MinDigits to MaxDigits
MinDigits == 10
MaxDigits == 15
LeadingDigits == {<<"1">>, <<"9", "1">>, <<"4", "4">>, <<"6">>, <<"2">>}
Filled(lead, n) == lead \o [i \in 1..(n - Len(lead)) |-> "5"]
CanonicalNumbers ==
    {<<"+">> \o Filled(lead, n) : lead \in LeadingDigits, n \in MinDigits..MaxDigits}

Normalize ==
    /\ \E input \in CanonicalNumbers :
          last' = Applied("formatPhoneNumber", input, formatPhoneNumber(input))
    /\ UNCHANGED <<calls, nEvents, inflight, handlers, streamVars, manager>>

NextFn == NativeWebhook \/ SipWebhook \/ TextAnalysis \/ SpeechVerification \/ Normalize
SpecFn == Init /\ [][NextFn]_vars

AppliedOp(op) == last.kind = "applied" /\ last.op = op

\* the answering-party value of a native payload, "" when it carries none
AnsweringParty(payload) ==
    IF Str(payload, "AnsweringMachineDetectionStatus") # ""
    THEN Str(payload, "AnsweringMachineDetectionStatus")
    ELSE Str(payload, "AnsweredBy")

BeginsWithMachine(v) ==
    v \in {"machine_start", "machine_end_beep", "machine_end_silence", "machine_end_other"}

Verdict(res, r, c) == res.result = r /\ res.confidence = c

\* C24 (as claimed): the native handleWebhook gives HUMAN at 0.85 for human,
\* MACHINE at 0.8 for machine and for every value beginning with machine_,
\* MACHINE at 0.9 for fax, UNDECIDED at 0.3 for any other present value, and
\* null for a payload with no answering-party value.
C24_NativeMapping ==
    AppliedOp("TwilioNativeDetector.handleWebhook") =>
        LET v == AnsweringParty(last.input)
        IN IF v = "" THEN IsNull(last.res)
           ELSE IF v = "human" THEN Verdict(last.res, "HUMAN", 85)
           ELSE IF v = "machine" \/ BeginsWithMachine(v) THEN Verdict(last.res, "MACHINE", 80)
           ELSE IF v = "fax" THEN Verdict(last.res, "MACHINE", 90)
           ELSE Verdict(last.res, "UNDECIDED", 30)

SipFlag(k) == Flag(last.input, k)

\* C25: the SIP-Enhanced handleWebhook returns HUMAN at 0.9 when the
\* human-detected flag is set, otherwise MACHINE at 0.85 when the
\* machine-detected flag is set, otherwise TIMEOUT at 0.5 when the
\* decision-timeout flag is set, null when none of the three is set, and
\* never any other verdict.
C25_SipMapping ==
    AppliedOp("JambonzSipDetector.handleWebhook") =>
        /\ SipFlag("amd_human_detected") => Verdict(last.res, "HUMAN", 90)
        /\ (SipFlag("amd_machine_detected") /\ ~SipFlag("amd_human_detected")) =>
               Verdict(last.res, "MACHINE", 85)
        /\ (SipFlag("amd_decision_timeout") /\ ~SipFlag("amd_machine_detected")
                /\ ~SipFlag("amd_human_detected")) => Verdict(last.res, "TIMEOUT", 50)
        /\ (~SipFlag("amd_human_detected") /\ ~SipFlag("amd_machine_detected")
                /\ ~SipFlag("amd_decision_timeout")) => IsNull(last.res)
        /\ IsNull(last.res) \/ last.res.result \in {"HUMAN", "MACHINE", "TIMEOUT"}

C25_Witness ==
    /\ AppliedOp("JambonzSipDetector.handleWebhook")
    /\ SipFlag("amd_decision_timeout")
    /\ "amd_human_detected" \in DOMAIN last.input
    /\ Verdict(last.res, "TIMEOUT", 50)

\* the LLM answered the prompt of a transcript analysis
LlmAnswered ==
    /\ AppliedOp("GeminiFlashDetector.processAudioText")
    /\ last.input.genAI
    /\ last.input.llm.out = "ok"

\* C26: a response that parses as structured data is mapped from its
\* classification (human to HUMAN, machine to MACHINE, voicemail to
\* VOICEMAIL); one that does not parse is scanned for keywords, human giving
\* HUMAN at 0.7, otherwise machine or voicemail giving MACHINE at 0.7; when the
\* scan finds nothing the result is ERROR and its metadata keeps the raw
\* response.
C26_DegradesInOrder ==
    LlmAnswered =>
        LET llm == last.input.llm
            res == last.res
            class == Str(llm.obj, "classification")
        IN /\ (llm.json /\ class = "human") => res.result = "HUMAN"
           /\ (llm.json /\ class = "machine") => res.result = "MACHINE"
           /\ (llm.json /\ class = "voicemail") => res.result = "VOICEMAIL"
           /\ (~llm.json /\ "human" \in llm.words) =>
                  (res.result = "HUMAN" /\ res.confidence = Some(70))
           /\ (~llm.json /\ "human" \notin llm.words /\ llm.words # {}) =>
                  (res.result = "MACHINE" /\ res.confidence = Some(70))
           /\ (~llm.json /\ llm.words = {}) =>
                  /\ res.result = "ERROR"
                  /\ "rawResponse" \in DOMAIN res.metadata
                  /\ res.metadata.rawResponse = llm.words

C26_Witness ==
    /\ LlmAnswered
    /\ ~last.input.llm.json
    /\ last.input.llm.words = {}
    /\ last.res.result = "ERROR"
    /\ "rawResponse" \in DOMAIN last.res.metadata

\* the captured speech contains one of the listed opener words, in any case
ContainsOpener(speech) ==
    \E i \in 1..Len(speech), j \in 1..Len(speech) :
        i <= j /\ toLowerCase(SubSeq(speech, i, j)) \in humanKeywords

\* the length of the captured speech without the blanks around it
RECURSIVE TrimmedLength(_)
TrimmedLength(speech) ==
    IF speech = << >> THEN 0
    ELSE IF Head(speech) = " " THEN TrimmedLength(Tail(speech))
    ELSE IF speech[Len(speech)] = " " THEN TrimmedLength(SubSeq(speech, 1, Len(speech) - 1))
    ELSE Len(speech)

\* C27: the speech verification records HUMAN exactly when captured speech is
\* present and either contains one of the listed opener words or is longer
\* than two characters after trimming; in every other case, absent speech
\* included, it records MACHINE at confidence 0.7.
C27_HumanExactlyWhenSpoken ==
    AppliedOp("verify") =>
        LET speech == Chars(last.input, "speech")
            spoken == speech # << >> /\ (ContainsOpener(speech) \/ TrimmedLength(speech) > 2)
        IN /\ (last.res.amdResult = "HUMAN") <=> spoken
           /\ ~spoken => (last.res.amdResult = "MACHINE" /\ last.res.confidence = Some(70))

C27_Witness ==
    /\ AppliedOp("verify")
    /\ Chars(last.input, "speech") = <<"a", "b", "c">>
    /\ last.res.amdResult = "HUMAN"

\* a Detection Result or a stored record that says ERROR says what the error is
Explained(verdict, metadata) == verdict = "ERROR" => "error" \in DOMAIN metadata

\* the Detection Result the last operation returned, if it returned one
ReturnedExplained ==
    /\ last.kind = "dial" => Explained(last.result.result, last.result.metadata)
    /\ last.kind \in {"webhook", "applied"} /\ "result" \in DOMAIN last.res =>
           Explained(last.res.result, last.res.metadata)

\* C28 (as claimed): every Detection Result with verdict ERROR that a strategy
\* operation returns, and every call record whose stored verdict is ERROR, has
\* an error key in its metadata.
C28_ErrorsExplained ==
    /\ ReturnedExplained
    /\ \A i \in DOMAIN calls : Explained(calls[i].amdResult, calls[i].metadata)

C28_Witness ==
    /\ last.kind = "webhook"
    /\ last.ev.ep = "recording"
    /\ last.id # 0
    /\ calls[last.id].amdResult = "ERROR"
    /\ calls[last.id].metadata.error = "Recording analysis failed"

\* ------------------------------------------------- reported confidences
\* the confidence a collaborator reports, in hundredths: nothing holds the ML
\* service, the LLM or the speech-verification payload to the range 0..1
ReportedConfidences == {0, 50, 100, 150}

VerifyReportedEvents ==
    {[ep |-> "verify",
      body |-> [call_sid |-> sid, speech |-> <<"H", "i">>, confidence |-> Some(c)]] :
        sid \in JambonzSids \cup TwilioSids, c \in ReportedConfidences}

AudioReportedEvents ==
    {[ep |-> "audio",
      body |-> [callSid |-> sid,
                ml |-> [ok |-> TRUE, label |-> "human", confidence |-> c, processing_time_ms |-> 40],
                llm |-> [ok |-> TRUE, classification |-> "human", confidence |-> c]]] :
        sid \in TwilioSids, c \in ReportedConfidences}

SpeechReportedEvents ==
    {[ep |-> "speech_result",
      body |-> [CallSid |-> sid, SpeechResult |-> Transcript, Confidence |-> "0.9", genAI |-> TRUE,
                llm |-> [out |-> "ok", json |-> TRUE,
                         obj |-> [classification |-> "human", confidence |-> c],
                         words |-> {"human"}]]] :
        sid \in TwilioSids, c \in ReportedConfidences}

VerifyReported == MoreEvents /\ \E ev \in VerifyReportedEvents : Handle(ev)
AudioReported == MoreEvents /\ \E ev \in AudioReportedEvents : Handle(ev)
SpeechReported == MoreEvents /\ \E ev \in SpeechReportedEvents : Handle(ev)

NextRange == Place \/ VerifyReported \/ AudioReported \/ SpeechReported
SpecRange == Init /\ [][NextRange]_vars

\* C29 (as claimed): the confidence stored on a call record is within 0 and 1
\* inclusive, whatever the ML service, the LLM response or the
\* speech-verification payload report.
C29_ConfidenceInRange ==
    \A i \in DOMAIN calls :
        calls[i].confidence # None => (calls[i].confidence[1] >= 0 /\ calls[i].confidence[1] <= 100)

\* a plus sign followed by 10 to 15 digits
Canonical(number) ==
    /\ Len(number) >= 1 + MinDigits
    /\ Len(number) <= 1 + MaxDigits
    /\ number[1] = "+"
    /\ \A i \in 2..Len(number) : IsDigit(number[i])

\* C30 (as claimed): the normalizer returns every canonical number, a plus
\* sign followed by 10 to 15 digits, unchanged.
C30_CanonicalUnchanged ==
    (AppliedOp("formatPhoneNumber") /\ Canonical(last.input)) => last.res = last.input

TerminalStatuses == {"COMPLETED", "FAILED", "CANCELLED"}
LiveStatuses == {"INITIATED", "RINGING", "ANSWERED"}

\* C31 (as claimed): once a call record's status is COMPLETED, FAILED or
\* CANCELLED, no later event of any kind sets it to INITIATED, RINGING or
\* ANSWERED.
C31_TerminalStatusStays ==
    [][\A i \in DOMAIN calls :
          calls[i].status \in TerminalStatuses => calls'[i].status \notin LiveStatuses]_vars

\* the number of chunks that make a window: 2 seconds at 20 ms per chunk
WindowChunks == WindowMs \div ChunkMs

\* the step handles a media message of stream s
MediaOf(s) == sent'[s] = sent[s] + 1

\* C32: the audio buffer of a stream is bounded. After a media event is
\* handled the buffer of its stream holds fewer than 100 chunks; the event
\* submits a window exactly when its chunk is the 100th of the buffer, that
\* window holds the 100 chunks, and the buffer is empty right after.
C32_BufferBounded ==
    [][\A s \in StreamSids :
          MediaOf(s) =>
             /\ Len(Buffered(s)') < WindowChunks
             /\ (windows' # windows) <=> (Len(Buffered(s)) + 1 = WindowChunks)
             /\ windows' # windows =>
                   /\ Buffered(s)' = << >>
                   /\ windows' = Append(windows, windows'[Len(windows')])
                   /\ Len(windows'[Len(windows')].chunks) = WindowChunks]_vars

\* a full window has been submitted for a stream that is still open and whose
\* buffer is empty
C32_Witness ==
    \E s \in DOMAIN activeStreams :
        /\ activeStreams[s].chunks = << >>
        /\ \E i \in DOMAIN windows :
              windows[i].streamSid = s /\ Len(windows[i].chunks) = WindowChunks

\* ------------------------------------------- any sequence of stream events
\* the media messages studied when start events may repeat
MaxFrames == 3

\* case "start", for any start event that names a call: the entry of the
\* stream id is set to a fresh buffer, whether or not the stream has one
StreamStartAgain(s, c) ==
    /\ handlers[c] = "voice-stream"
    /\ activeStreams' = Spread(activeStreams,
                               [x \in {s} |-> [chunks |-> << >>, callSid |-> TwilioSid(c)]])
    /\ UNCHANGED <<calls, last, nEvents, inflight, handlers, windows, sent, manager>>

StartAgainAny == \E s \in StreamSids : \E c \in 1..Len(calls) : StreamStartAgain(s, c)
MediaFew == TotalSent(StreamSids) < MaxFrames /\ \E s \in StreamSids : StreamMedia(s)

NextFrames ==
    \/ PlaceStream
    \/ StartAgainAny
    \/ MediaFew
    \/ StopAny

SpecFrames == Init /\ [][NextFrames]_vars

\* the step handles the stop event of stream s
StopOf(s) == s \in DOMAIN activeStreams /\ s \notin DOMAIN activeStreams'

\* the windows, after the step, that contain the n-th chunk of stream s
WindowsWith(s, n) == {i \in DOMAIN windows' : <<s, n>> \in ChunksOf(windows'[i])}

\* C33 (as claimed): for every sequence of start, media and stop events, when
\* the stop event of a stream has been handled every chunk the stream received
\* while it was open has been submitted in exactly one window, none dropped
\* and none twice, and the stream has no buffer entry any more.
C33_EveryChunkOnce ==
    [][\A s \in StreamSids :
          StopOf(s) =>
             /\ \A n \in 1..sent[s] : Cardinality(WindowsWith(s, n)) = 1
             /\ \A i \in DOMAIN windows' :
                   Cardinality(ChunksOf(windows'[i])) = Len(windows'[i].chunks)]_vars

\* ------------------------------------ PythonServiceManager.ensureServiceRunning
\* a caller is idle, probing (awaiting the first isServiceHealthy), waiting
\* (awaiting waitForService(30000) because another caller is starting) or
\* starting (awaiting startService and waitForService(60000))
managerOnly == <<calls, last, nEvents, inflight, handlers, streamVars>>

EnsureCall(c) ==
    /\ manager.pc[c] = "idle"
    /\ manager' = [manager EXCEPT !.pc[c] = "probing"]
    /\ UNCHANGED managerOnly

\* the first probe answers; the test of isStarting and its assignment follow
\* without an await in between
EnsureProbed(c, healthy) ==
    /\ manager.pc[c] = "probing"
    /\ manager' = IF healthy THEN [manager EXCEPT !.pc[c] = "idle"]
                  ELSE IF manager.isStarting THEN [manager EXCEPT !.pc[c] = "waiting"]
                  ELSE [manager EXCEPT !.pc[c] = "starting", !.isStarting = TRUE]
    /\ UNCHANGED managerOnly

\* a variant of the waiter's end that never assigns the flag
EnsureWaitedQuietly(c, timedOut) ==
    /\ manager.pc[c] = "waiting"
    /\ manager' = [manager EXCEPT !.pc[c] = "idle"]
    /\ UNCHANGED managerOnly

\* the waiter's waitForService returns, or throws after its timeout: the throw
\* lands in the outer catch, which assigns isStarting = false
EnsureWaited(c, timedOut) ==
    /\ manager.pc[c] = "waiting"
    /\ manager' = IF timedOut THEN [manager EXCEPT !.pc[c] = "idle", !.isStarting = FALSE]
                  ELSE [manager EXCEPT !.pc[c] = "idle"]
    /\ UNCHANGED managerOnly

\* the starter's attempt ends, by return or by throw: finally assigns
\* isStarting = false
EnsureStarted(c) ==
    /\ manager.pc[c] = "starting"
    /\ manager' = [manager EXCEPT !.pc[c] = "idle", !.isStarting = FALSE]
    /\ UNCHANGED managerOnly

EnsureCallAny == \E c \in Callers : EnsureCall(c)
EnsureProbedAny == \E c \in Callers, healthy \in BOOLEAN : EnsureProbed(c, healthy)
EnsureWaitedAny == \E c \in Callers, timedOut \in BOOLEAN : EnsureWaited(c, timedOut)
EnsureStartedAny == \E c \in Callers : EnsureStarted(c)

NextEnsure == EnsureCallAny \/ EnsureProbedAny \/ EnsureWaitedAny \/ EnsureStartedAny
SpecEnsure == Init /\ [][NextEnsure]_vars

Starters == {c \in Callers : manager.pc[c] = "starting"}

\* C34 (as claimed): for any number of concurrent ensureServiceRunning calls at
\* most one start-up attempt is in progress at any time, and the is-starting
\* flag is true exactly while that attempt is in progress (a caller that only
\* waits never clears it).
C34_OneStartupAtATime ==
    /\ Cardinality(Starters) <= 1
    /\ manager.isStarting <=> Starters # {}

\* ------------------------------------ events racing the dial handler's write
\* the dial handler up to processCall's return: the record is created and the
\* placement made; what processCall returned waits to be written
RaceDial(phoneNumber, strategy, env) ==
    /\ Len(phoneNumber) >= 7
    /\ isValidPhoneNumber(phoneNumber)
    /\ LET formatted == formatPhoneNumber(phoneNumber)
           id == Len(calls) + 1
       IN /\ calls' = Append(calls, NewCall(formatted, strategy))
          /\ inflight' = <<[kind |-> "dial", id |-> id, strategy |-> strategy, env |-> env,
                            pc |-> ProcessCall(strategy, formatted, id, env)]>>
          /\ last' = [kind |-> "dial_pending", strategy |-> strategy, id |-> id, env |-> env]
          /\ handlers' = Append(handlers, "")
    /\ UNCHANGED <<nEvents, streamVars, manager>>

\* the dial handler from processCall's return on: prisma.call.update, reply
RaceWrite ==
    /\ inflight # << >>
    /\ LET d == inflight[1]
           failed == d.pc.res.result = "ERROR"
       IN /\ calls' = [calls EXCEPT ![d.id] = ApplyUpdate(@, DialUpdate(d.pc.res))]
          /\ last' = [kind |-> "dial", strategy |-> d.strategy, id |-> d.id,
                      result |-> d.pc.res, log |-> d.pc.log,
                      configured |-> Configured(d.strategy, d.env),
                      http |-> 200,
                      status |-> IF failed THEN "failed" ELSE "initiated",
                      message |-> IF failed THEN d.pc.res.metadata.error
                                  ELSE "Call initiated successfully"]
          /\ handlers' = [handlers EXCEPT ![d.id] = Handler(d.pc.log)]
    /\ inflight' = << >>
    /\ UNCHANGED <<nEvents, streamVars, manager>>

\* the provider call ids of the placements a provider has accepted
AcceptedSids ==
    {calls[i].metadata.twilioCallSid :
        i \in {j \in DOMAIN calls : "twilioCallSid" \in DOMAIN calls[j].metadata}}
    \cup {inflight[k].pc.res.metadata.twilioCallSid :
        k \in {j \in DOMAIN inflight : "twilioCallSid" \in DOMAIN inflight[j].pc.res.metadata}}

RaceBegin ==
    /\ MoreCalls
    /\ inflight = << >>
    /\ \E s \in Strategies : \E e \in PlacementEnvs : RaceDial(PhoneIN, s, e)

\* the provider delivers a status callback of a placement it has accepted
RaceEvent ==
    /\ MoreEvents
    /\ \E ev \in TwilioStatusEvents : ev.body.CallSid \in AcceptedSids /\ Handle(ev)

NextRace == RaceBegin \/ RaceEvent \/ RaceWrite
SpecRace == Init /\ [][NextRace]_vars

\* C35 (as claimed): no provider event for a successfully placed call is lost.
\* An event delivered after the placement was accepted, the dial handler's
\* write of the provider call id still outstanding, is applied to the call's
\* record and not dropped as call-not-found.
C35_NoEventLost ==
    (last.kind = "webhook" /\ last.ev.body.CallSid \in AcceptedSids) => last.id # 0

\* the event carries a duration, under the name its endpoint reads
CarriesDuration(ev) ==
    \/ Chars(ev.body, "CallDuration") # << >>
    \/ Chars(ev.body, "call_duration") # << >>
    \/ Chars(ev.body, "RecordingDuration") # << >>

\* C36 (as claimed): once a call record stores a duration and a cost, a later
\* event for that call that carries no duration leaves the stored duration and
\* cost unchanged.
C36_DurationAndCostKept ==
    [][\A i \in DOMAIN calls :
          (/\ calls[i].duration # None
           /\ calls[i].cost # None
           /\ last'.kind = "webhook"
           /\ last'.id = i
           /\ ~CarriesDuration(last'.ev)) =>
              /\ calls'[i].duration = calls[i].duration
              /\ calls'[i].cost = calls[i].cost]_vars

\* the placement of the call went through the native fallback path of its
\* strategy: every such path leaves its reason or the primary path's error
WentThroughFallback(call) ==
    \/ "fallbackReason" \in DOMAIN call.metadata
    \/ "originalError" \in DOMAIN call.metadata

\* C37 (as claimed): a call record's metadata has fallbackUsed = true only if
\* the placement of the call went through the native fallback path of its
\* strategy; a call placed on its strategy's primary path never acquires it
\* from a later webhook.
C37_FallbackUsedMeansFallback ==
    \A i \in DOMAIN calls :
        ("fallbackUsed" \in DOMAIN calls[i].metadata /\ calls[i].metadata.fallbackUsed) =>
            WentThroughFallback(calls[i])

\* the requests of a processCall that a provider accepted
AcceptedPlacements(log) ==
    {i \in DOMAIN log :
        \/ log[i].svc = "jambonz.calls" /\ Accepted(log[i].out)
        \/ log[i].svc = "twilio.calls.create" /\ log[i].out = "ok"}

\* C38 (as claimed): one SIP-Enhanced processCall causes at most one call to
\* be accepted by a provider. Once an alternate-provider placement request has
\* been accepted no further number variant is submitted and no native
\* fallback call is placed, whatever fails while the accepted response is read.
C38_OneAcceptedPlacement ==
    (last.kind = "dial" /\ last.strategy = "JAMBONZ_SIP") =>
        /\ Cardinality(AcceptedPlacements(last.log)) <= 1
        /\ \A i \in DOMAIN last.log :
              (last.log[i].svc = "jambonz.calls" /\ Accepted(last.log[i].out)) =>
                  i = Len(last.log)

\* the prompt variant of the last transcript analysis: getFallbackPrompt for
\* noisy audio, getStandardPrompt otherwise
NoisyPrompt == last.input.noiseLevel = "high" \/ last.input.audioQuality = "poor"

\* the response is well formed in the shape the prompt asked for and says human
SaysHumanAsAsked(obj) ==
    IF NoisyPrompt
    THEN DOMAIN obj = {"type", "conf"} /\ obj.type = "human"
    ELSE {"classification", "confidence"} \subseteq DOMAIN obj /\ obj.classification = "human"

ReportedConfidence(obj) == IF NoisyPrompt THEN obj.conf ELSE obj.confidence

\* C39 (as claimed): for both prompt variants, a model response that is well
\* formed in the shape that variant's prompt asks for and says human yields
\* verdict HUMAN with the confidence the response reports.
C39_HumanInEitherShape ==
    (LlmAnswered /\ last.input.llm.json /\ SaysHumanAsAsked(last.input.llm.obj)) =>
        /\ last.res.result = "HUMAN"
        /\ last.res.confidence = Some(ReportedConfidence(last.input.llm.obj))

============================================================================
